---- MODULE Spec2Model ----
(***************************************************************************)
(* A model of DineSync / YelpReviewGym:                                    *)
(*   - ConsensusEngine (src/src/dinesync/consensus_engine.py): the pure    *)
(*     scoring functions, applied to inputs drawn from bounded sets;       *)
(*   - UserManager (src/src/yelpreviewgym/user_manager.py): the ledger of  *)
(*     user profiles, business progress and certificates;                  *)
(*   - SessionManager (src/src/dinesync/session_manager.py): the store of  *)
(*     group dining sessions;                                              *)
(*   - ProgressTracker and CertificationSystem                             *)
(*     (src/src/yelpreviewgym/enhanced_features.py), and the username      *)
(*     validation and the "Get Feedback" handler of run_app_enhanced.py;   *)
(*   - the storage files themselves: what loading makes of a file that is  *)
(*     not JSON, two callers of one session file interleaving their load   *)
(*     and save steps, and two UserManager instances on one data file.     *)
(*                                                                         *)
(* Text that the code lower-cases or searches is a tuple of one-character  *)
(* strings, so that str.lower() and the `in` substring test are computed.  *)
(* Distances are in tenths of a mile.  Python floats are modelled by exact *)
(* rationals [n, d] in lowest terms (d > 0); float rounding is not         *)
(* modelled.  A Python exception is the value of the field exc.            *)
(***************************************************************************)
EXTENDS Integers, Sequences, FiniteSets, TLC

VARIABLES
    restaurants,     \* rank_restaurants / calculate_group_score argument: list of Restaurant
    all_user_prefs,  \* list of UserPreferences
    ind,             \* outcome of the last calculate_individual_score call
    grp,             \* outcome of the last calculate_group_score call
    ranked,          \* outcome of the last rank_restaurants call
    users,           \* UserManager.users: the profiles, in dict insertion order
    ret,             \* what the last UserManager call returned
    hist,            \* per (user, business): the avg_score values passed to
                     \* award_certificate since the profile was created
    call,            \* the last call made (or, for a pure function, its arguments)
    deleted,         \* users deleted and not written to since
    sessions,        \* SessionManager's storage file: the sessions, in dict order
    submitted,       \* the successful add_participant calls, in call order
    tracker,         \* ProgressTracker.data
    session_state,   \* st.session_state: session_scores and completed_scenarios
    file_kind,       \* what each storage file holds: JSON written by the program,
                     \* text that is not JSON, or bytes that are not UTF-8
    callers,         \* per concurrent SessionManager caller: its call, its
                     \* position in it and the sessions dict it has loaded
    instances        \* per further UserManager instance: its self.users

engineVars == <<restaurants, all_user_prefs, ind, grp, ranked>>
noteVars == <<call, deleted>>
sessionVars == <<sessions, submitted>>
trackerVars == <<tracker>>
appVars == <<session_state, file_kind, callers, instances>>

vars == <<restaurants, all_user_prefs, ind, grp, ranked, users, ret, hist,
          call, deleted, sessions, submitted, tracker, session_state, file_kind,
          callers, instances>>

None == "None"

\* an Optional list argument: None, or a list
NoneList == [is_none |-> TRUE, items |-> <<>>]
ListOf(xs) == [is_none |-> FALSE, items |-> xs]
\* truthiness of an Optional list: neither None nor empty
Truthy(l) == ~l.is_none /\ l.items # <<>>

(***************************************************************************)
(* Exact rationals                                                         *)
(***************************************************************************)
Abs(x) == IF x < 0 THEN -x ELSE x

RECURSIVE Gcd(_, _)
Gcd(a, b) == IF b = 0 THEN a ELSE Gcd(b, a % b)

Rat(n, d) ==
    LET g == Gcd(Abs(n), Abs(d))
        s == IF d < 0 THEN -1 ELSE 1
    IN  [n |-> (s * n) \div g, d |-> (s * d) \div g]

RInt(k) == [n |-> k, d |-> 1]
RAdd(a, b) == Rat(a.n * b.d + b.n * a.d, a.d * b.d)
RSub(a, b) == Rat(a.n * b.d - b.n * a.d, a.d * b.d)
RMul(a, b) == Rat(a.n * b.n, a.d * b.d)
RDiv(a, b) == Rat(a.n * b.d, a.d * b.n)
RLe(a, b) == a.n * b.d <= b.n * a.d
RLt(a, b) == a.n * b.d < b.n * a.d

(***************************************************************************)
(* Text                                                                    *)
(***************************************************************************)
UpperChars == <<"A","B","C","D","E","F","G","H","I","J","K","L","M",
                "N","O","P","Q","R","S","T","U","V","W","X","Y","Z">>
LowerChars == <<"a","b","c","d","e","f","g","h","i","j","k","l","m",
                "n","o","p","q","r","s","t","u","v","w","x","y","z">>

LowerMap ==
    [c \in {UpperChars[i] : i \in 1..Len(UpperChars)} |->
        LowerChars[CHOOSE i \in 1..Len(UpperChars) : UpperChars[i] = c]]

LowerChar(c) == IF c \in DOMAIN LowerMap THEN LowerMap[c] ELSE c

\* str.lower()
Lower(s) == [i \in 1..Len(s) |-> LowerChar(s[i])]

\* `a in b` on two strings (the empty string is in every string)
IsSubstr(a, b) ==
    \E k \in 0..(Len(b) - Len(a)) : SubSeq(b, k + 1, k + Len(a)) = a

\* `x in xs` on a list
InList(x, xs) == \E i \in 1..Len(xs) : xs[i] = x

LowerAll(xs) == [i \in 1..Len(xs) |-> Lower(xs[i])]

(***************************************************************************)
(* ConsensusEngine: calculate_individual_score                             *)
(*                                                                         *)
(* Restaurant  = [name, cuisine, price, distance, dietary_options,         *)
(*                ambiance]   (rating, address and review_snippet are      *)
(*                never read by the engine and are left out)               *)
(* UserPreferences = [name, cuisines, dietary_restrictions, budget,        *)
(*                max_distance, ambiance, veto_items]                      *)
(***************************************************************************)
CUISINE_WEIGHT == 30
DIETARY_WEIGHT == 25
PRICE_WEIGHT == 20
DISTANCE_WEIGHT == 15
AMBIANCE_WEIGHT == 10

Half == Rat(1, 2)

\* BUDGET_MAP.get(b, 2)
BudgetVal(b) ==
    CASE b = "$" -> 1
      [] b = "$$" -> 2
      [] b = "$$$" -> 3
      [] b = "$$$$" -> 4
      [] OTHER -> 2

\* f"{restaurant.name} {restaurant.cuisine}".lower()
RestaurantText(r) == Lower(r.name \o <<" ">> \o r.cuisine)

\* lines 80-87: some veto keyword is in the restaurant text
VetoHitCaseSensitive(r, p) ==
    /\ Truthy(p.veto_items)
    /\ \E i \in 1..Len(p.veto_items.items) :
           IsSubstr(p.veto_items.items[i], RestaurantText(r))

VetoHit(r, p) ==
    /\ Truthy(p.veto_items)
    /\ \E i \in 1..Len(p.veto_items.items) :
           IsSubstr(Lower(p.veto_items.items[i]), RestaurantText(r))

\* lines 91-97: some required tag is not among the offered ones
DietaryFailAnyOffered(r, p) ==
    /\ p.dietary_restrictions # <<>>
    /\ \A i \in 1..Len(p.dietary_restrictions) :
           ~InList(Lower(p.dietary_restrictions[i]), LowerAll(r.dietary_options))

DietaryFail(r, p) ==
    /\ p.dietary_restrictions # <<>>
    /\ \E i \in 1..Len(p.dietary_restrictions) :
           ~InList(Lower(p.dietary_restrictions[i]), LowerAll(r.dietary_options))

\* lines 98-101: both branches add DIETARY_WEIGHT
DietaryPoints(r, p) == RInt(DIETARY_WEIGHT)

\* lines 104-114
CuisinePoints(r, p) ==
    IF p.cuisines # <<>>
    THEN LET cuisine_lower == Lower(r.cuisine)
             user_cuisines_lower == LowerAll(p.cuisines)
         IN  IF InList(cuisine_lower, user_cuisines_lower)
             THEN RInt(CUISINE_WEIGHT)
             ELSE IF \E i \in 1..Len(user_cuisines_lower) :
                         \/ IsSubstr(user_cuisines_lower[i], cuisine_lower)
                         \/ IsSubstr(cuisine_lower, user_cuisines_lower[i])
                  THEN RMul(RInt(CUISINE_WEIGHT), Half)
                  ELSE RInt(0)
    ELSE RMul(RInt(CUISINE_WEIGHT), Half)

\* lines 117-128
PricePointsOneOffFull(r, p) ==
    IF p.budget # "" /\ r.price # ""
    THEN LET price_diff == Abs(BudgetVal(p.budget) - BudgetVal(r.price))
         IN  IF price_diff <= 1 THEN RInt(PRICE_WEIGHT) ELSE RInt(0)
    ELSE RMul(RInt(PRICE_WEIGHT), Half)

PricePoints(r, p) ==
    IF p.budget # "" /\ r.price # ""
    THEN LET price_diff == Abs(BudgetVal(p.budget) - BudgetVal(r.price))
         IN  IF price_diff = 0 THEN RInt(PRICE_WEIGHT)
             ELSE IF price_diff = 1 THEN RMul(RInt(PRICE_WEIGHT), Half)
             ELSE RInt(0)
    ELSE RMul(RInt(PRICE_WEIGHT), Half)

\* line 133 divides by user_prefs.max_distance: float division by zero
\* raises ZeroDivisionError
DistanceRaises(r, p) ==
    /\ r.distance <= p.max_distance
    /\ p.max_distance = 0

\* lines 131-135, where line 133 does not raise
DistancePoints(r, p) ==
    IF r.distance <= p.max_distance
    THEN LET distance_ratio == RSub(RInt(1), Rat(r.distance, p.max_distance))
         IN  RMul(RInt(DISTANCE_WEIGHT), distance_ratio)
    ELSE RInt(0)

\* lines 138-147
AmbiancePoints(r, p) ==
    IF p.ambiance # <<>> /\ r.ambiance # <<>>
    THEN LET ambiance_lower == Lower(r.ambiance)
             user_ambiance_lower == LowerAll(p.ambiance)
         IN  IF InList(ambiance_lower, user_ambiance_lower)
             THEN RInt(AMBIANCE_WEIGHT)
             ELSE IF \E i \in 1..Len(user_ambiance_lower) :
                         \/ IsSubstr(user_ambiance_lower[i], ambiance_lower)
                         \/ IsSubstr(ambiance_lower, user_ambiance_lower[i])
                  THEN RMul(RInt(AMBIANCE_WEIGHT), Half)
                  ELSE RInt(0)
    ELSE RMul(RInt(AMBIANCE_WEIGHT), Half)

Returned(v) == [exc |-> "none", value |-> v]
Raised(e) == [exc |-> e, value |-> RInt(0)]

\* The body of calculate_individual_score: where it leaves, and the values
\* the local variable `score` has taken up to there
ScoreSteps(r, p) ==
    IF VetoHit(r, p) THEN [exit |-> "veto", steps |-> <<RInt(0)>>]
    ELSE IF DietaryFail(r, p) THEN [exit |-> "dietary", steps |-> <<RInt(0)>>]
    ELSE LET s1 == RAdd(RInt(0), DietaryPoints(r, p))
             s2 == RAdd(s1, CuisinePoints(r, p))
             s3 == RAdd(s2, PricePoints(r, p))
         IN  IF DistanceRaises(r, p)
             THEN [exit |-> "ZeroDivisionError", steps |-> <<RInt(0), s1, s2, s3>>]
             ELSE LET s4 == RAdd(s3, DistancePoints(r, p))
                      s5 == RAdd(s4, AmbiancePoints(r, p))
                  IN  [exit |-> "end", steps |-> <<RInt(0), s1, s2, s3, s4, s5>>]

\* what calculate_individual_score returns or raises on leaving at t
ResultOf(t) ==
        CASE t.exit = "veto" -> Returned(RInt(0))
          [] t.exit = "dietary" -> Returned(RInt(0))
          [] t.exit = "ZeroDivisionError" -> Raised("ZeroDivisionError")
          [] OTHER -> Returned(RDiv(t.steps[Len(t.steps)], RInt(100)))

\* calculate_individual_score(restaurant, user_prefs)
CalculateIndividualScore(r, p) == ResultOf(ScoreSteps(r, p))

(***************************************************************************)
(* ConsensusEngine: calculate_group_score, rank_restaurants                *)
(*                                                                         *)
(* A Python dict is a list of [key, val] entries in insertion order;       *)
(* assigning to a key that is present replaces its value in place.         *)
(***************************************************************************)
DictHas(d, k) == \E i \in 1..Len(d) : d[i].key = k

\* d[k] = v
DictSet(d, k, v) ==
    IF DictHas(d, k)
    THEN [i \in 1..Len(d) |-> IF d[i].key = k THEN [key |-> k, val |-> v] ELSE d[i]]
    ELSE Append(d, [key |-> k, val |-> v])

RECURSIVE SumVals(_)
SumVals(d) == IF d = <<>> THEN RInt(0) ELSE RAdd(d[1].val, SumVals(Tail(d)))

RECURSIVE MinVals(_)
MinVals(d) ==
    IF Len(d) = 1 THEN d[1].val
    ELSE LET m == MinVals(Tail(d)) IN IF RLe(d[1].val, m) THEN d[1].val ELSE m

RECURSIVE MaxVals(_)
MaxVals(d) ==
    IF Len(d) = 1 THEN d[1].val
    ELSE LET m == MaxVals(Tail(d)) IN IF RLe(m, d[1].val) THEN d[1].val ELSE m

\* lines 166-170: the loop filling individual_scores, up to the first raise
RECURSIVE IndividualScores(_, _, _)
RECURSIVE IndividualScoresStep(_, _, _, _)
IndividualScoresStep(r, prefs, acc, res) ==
    IF res.exc # "none" THEN [exc |-> res.exc, scores |-> acc]
    ELSE IndividualScores(r, Tail(prefs), DictSet(acc, Head(prefs).name, res.value))

IndividualScores(r, prefs, acc) ==
    IF prefs = <<>> THEN [exc |-> "none", scores |-> acc]
    ELSE IndividualScoresStep(r, prefs, acc,
                              CalculateIndividualScore(r, Head(prefs)))

GenerateExplanationLastMin(individual_scores, min_score, max_score) ==
    LET last == CHOOSE i \in 1..Len(individual_scores) :
                    /\ individual_scores[i].val = min_score
                    /\ \A j \in (i + 1)..Len(individual_scores) :
                           individual_scores[j].val # min_score
        compromiser == individual_scores[last].key
    IN  IF RLt(RSub(max_score, min_score), Rat(1, 10))
        THEN [kind |-> "everyone_equally", who |-> None]
        ELSE IF RLt(min_score, Rat(5, 10))
        THEN [kind |-> "big_compromise", who |-> compromiser]
        ELSE IF RLt(min_score, Rat(7, 10))
        THEN [kind |-> "fair_compromise", who |-> compromiser]
        ELSE [kind |-> "great_for_everyone", who |-> None]

\* _generate_explanation (lines 203-226); thresholds compared exactly
GenerateExplanation(individual_scores, min_score, max_score) ==
    LET first == CHOOSE i \in 1..Len(individual_scores) :
                    /\ individual_scores[i].val = min_score
                    /\ \A j \in 1..(i - 1) : individual_scores[j].val # min_score
        compromiser == individual_scores[first].key
    IN  IF RLt(RSub(max_score, min_score), Rat(1, 10))
        THEN [kind |-> "everyone_equally", who |-> None]
        ELSE IF RLt(min_score, Rat(5, 10))
        THEN [kind |-> "big_compromise", who |-> compromiser]
        ELSE IF RLt(min_score, Rat(7, 10))
        THEN [kind |-> "fair_compromise", who |-> compromiser]
        ELSE [kind |-> "great_for_everyone", who |-> None]

\* lines 188: (avg_score * 0.7) + (min_score * 0.3)
GroupFormula(avg_score, min_score) ==
    RAdd(RMul(avg_score, Rat(7, 10)), RMul(min_score, Rat(3, 10)))

\* lines 172-179: the result for an empty individual_scores
NoUsersResultDivides(ri) ==
    [exc |-> "ZeroDivisionError", restaurant |-> ri, group_score |-> RInt(0),
     individual_scores |-> <<>>, compromise_level |-> RInt(0),
     explanation |-> [kind |-> "none", who |-> None]]

NoUsersResult(ri) ==
    [exc |-> "none", restaurant |-> ri, group_score |-> RInt(0),
     individual_scores |-> <<>>, compromise_level |-> RInt(0),
     explanation |-> [kind |-> "no_users_to_score", who |-> None]]

\* lines 188-201: the result built from the metrics
GroupResult(ri, individual_scores, avg_score, min_score, max_score) ==
    [exc |-> "none", restaurant |-> ri,
     group_score |-> GroupFormula(avg_score, min_score),
     individual_scores |-> individual_scores,
     compromise_level |-> min_score,
     explanation |-> GenerateExplanation(individual_scores, min_score, max_score)]

\* lines 172-201, given the outcome of the loop
GroupScoreOf(ri, got) ==
    IF got.exc # "none"
    THEN [exc |-> got.exc, restaurant |-> ri, group_score |-> RInt(0),
          individual_scores |-> <<>>, compromise_level |-> RInt(0),
          explanation |-> [kind |-> "none", who |-> None]]
    ELSE IF got.scores = <<>>
    THEN NoUsersResult(ri)
    ELSE GroupResult(ri, got.scores,
                     RDiv(SumVals(got.scores), RInt(Len(got.scores))),
                     MinVals(got.scores), MaxVals(got.scores))

\* calculate_group_score(restaurant, all_user_prefs); ri identifies the
\* Restaurant object the result refers to
CalculateGroupScore(ri, r, prefs) ==
    GroupScoreOf(ri, IndividualScores(r, prefs, <<>>))

\* list.sort(key=lambda r: r.group_score, reverse=True): a stable sort, equal
\* keys keep their order.  Insert x behind every element whose key is >= x's.
RECURSIVE InsertDesc(_, _)
InsertDesc(sorted, x) ==
    IF sorted = <<>> THEN <<x>>
    ELSE IF RLt(sorted[1].group_score, x.group_score)
         THEN <<x>> \o sorted
         ELSE <<sorted[1]>> \o InsertDesc(Tail(sorted), x)

RECURSIVE SortDesc(_, _)
SortDesc(results, acc) ==
    IF results = <<>> THEN acc
    ELSE SortDesc(Tail(results), InsertDesc(acc, Head(results)))

\* lines 237-241: the loop building results, up to the first raise
RECURSIVE GroupResults(_, _, _, _)
RECURSIVE GroupResultsStep(_, _, _, _, _)
GroupResultsStep(rs, k, prefs, acc, res) ==
    IF res.exc # "none" THEN [exc |-> res.exc, results |-> <<>>]
    ELSE GroupResults(rs, k + 1, prefs, Append(acc, res))

GroupResults(rs, k, prefs, acc) ==
    IF k > Len(rs) THEN [exc |-> "none", results |-> acc]
    ELSE GroupResultsStep(rs, k, prefs, acc, CalculateGroupScore(k, rs[k], prefs))

\* lines 244-246, given the outcome of the loop
RankedOf(got) ==
    IF got.exc # "none" THEN got
    ELSE [exc |-> "none", results |-> SortDesc(got.results, <<>>)]

\* rank_restaurants(restaurants, all_user_prefs)
RankRestaurants(rs, prefs) == RankedOf(GroupResults(rs, 1, prefs, <<>>))

(***************************************************************************)
(* Inputs of the scoring functions                                         *)
(***************************************************************************)
T_Luigi == <<"L","u","i","g","i">>
T_SushiBar == <<"S","u","s","h","i"," ","B","a","r">>
T_Italian == <<"I","t","a","l","i","a","n">>
T_ITALIAN == <<"I","T","A","L","I","A","N">>
T_Thai == <<"T","h","a","i">>
T_THAI == <<"T","H","A","I">>
T_Tha == <<"T","h","a">>
T_ThaiFood == <<"t","h","a","i"," ","f","o","o","d">>
T_Sushi == <<"S","u","s","h","i">>
T_Vegan == <<"V","e","g","a","n">>
T_vegan == <<"v","e","g","a","n">>
T_Halal == <<"H","a","l","a","l">>
T_halal == <<"h","a","l","a","l">>
T_Kosher == <<"K","o","s","h","e","r">>
T_Romantic == <<"R","o","m","a","n","t","i","c">>
T_ROMANTIC == <<"R","O","M","A","N","T","I","C">>
T_Roman == <<"R","o","m","a","n">>
T_Casual == <<"C","a","s","u","a","l">>
T_Cozy == <<"C","o","z","y">>

ItemNames == {T_Luigi, T_SushiBar}
ItemCuisines == {T_Italian, T_Thai}
ItemPrices == {"", "$$", "$$$$", "EUR"}
\* tenths of a mile
ItemDistances == {0, 12, 30, 50}
ItemDietaryOptions == {<<>>, <<T_Vegan, T_Halal>>}
ItemAmbiances == {<<>>, T_Romantic}

PrefCuisines == {<<>>, <<T_ITALIAN>>, <<T_Sushi, T_Tha>>, <<T_ThaiFood>>}
PrefDietary == {<<>>, <<T_vegan>>, <<T_halal, T_Kosher>>}
PrefBudgets == {"", "$", "$$", "$$$", "$$$$"}
PrefMaxDistances == {0, 30}
PrefAmbiances == {<<>>, <<T_ROMANTIC>>, <<T_Casual>>, <<T_Cozy, T_Roman>>}
PrefVetoes == {NoneList, ListOf(<<>>), ListOf(<<T_Sushi, T_THAI>>)}

Items ==
    [name : ItemNames, cuisine : ItemCuisines, price : ItemPrices,
     distance : ItemDistances, dietary_options : ItemDietaryOptions,
     ambiance : ItemAmbiances]

Prefs ==
    [name : {"Ana"}, cuisines : PrefCuisines, dietary_restrictions : PrefDietary,
     budget : PrefBudgets, max_distance : PrefMaxDistances,
     ambiance : PrefAmbiances, veto_items : PrefVetoes]

Unset == [exc |-> "unset"]

NoRet == [op |-> "none"]

NoCall == [op |-> "none"]

LedgerIdle ==
    /\ users = <<>>
    /\ ret = NoRet
    /\ hist = {}
    /\ call = NoCall
    /\ deleted = {}

SessionIdle ==
    /\ sessions = <<>>
    /\ submitted = <<>>

NoProgressData == [sessions |-> <<>>, total_score |-> [n |-> 0, d |-> 1], badges |-> <<>>]

TrackerIdle == tracker = NoProgressData

\* both storage files hold what _save_data and _save_sessions wrote
JsonFiles == [users |-> "json", sessions |-> "json"]

\* run_app_enhanced.py lines 51-54: a new browser session
NoSessionState == [session_scores |-> <<>>, completed_scenarios |-> {}]

AppIdle ==
    /\ session_state = NoSessionState
    /\ file_kind = JsonFiles
    /\ callers = <<>>
    /\ instances = <<>>

(***************************************************************************)
(* ScoreSpec: calculate_individual_score on one Restaurant and one         *)
(* UserPreferences drawn from Items x Prefs                                *)
(***************************************************************************)
ScoreInit ==
    /\ \E r \in Items : restaurants = <<r>>
    /\ \E p \in Prefs : all_user_prefs = <<p>>
    /\ ind = Unset
    /\ grp = Unset
    /\ ranked = Unset
    /\ LedgerIdle
    /\ SessionIdle
    /\ TrackerIdle
    /\ AppIdle

ScoreIndividual ==
    /\ ind = Unset
    /\ LET r == restaurants[1]
           p == all_user_prefs[1]
           t == ScoreSteps(r, p)
           res == ResultOf(t)
       IN  ind' = [exc |-> res.exc, value |-> res.value, steps |-> t.steps]
    /\ UNCHANGED <<restaurants, all_user_prefs, grp, ranked, users, ret, hist, noteVars, sessionVars, trackerVars, appVars>>

ScoreNext == ScoreIndividual

ScoreSpec == ScoreInit /\ [][ScoreNext]_vars

(***************************************************************************)
(* Claims about calculate_individual_score (under ScoreSpec)               *)
(***************************************************************************)
Scored == ind # Unset
TheItem == restaurants[1]
ThePref == all_user_prefs[1]
PriceTiers == {"$", "$$", "$$$", "$$$$"}

\* the claims' preconditions, stated on the inputs
VetoKeywordMatches ==
    /\ ~ThePref.veto_items.is_none
    /\ \E i \in 1..Len(ThePref.veto_items.items) :
           IsSubstr(Lower(ThePref.veto_items.items[i]),
                    Lower(TheItem.name \o <<" ">> \o TheItem.cuisine))

RequiredTagMissing ==
    \E i \in 1..Len(ThePref.dietary_restrictions) :
        \A j \in 1..Len(TheItem.dietary_options) :
            Lower(ThePref.dietary_restrictions[i]) # Lower(TheItem.dietary_options[j])

\* C1: for every Item and Preference, calculate_individual_score returns a
\* value s with 0.0 <= s <= 1.0.
C1_ScoreInUnitInterval ==
    Scored => /\ ind.exc = "none"
              /\ RLe(RInt(0), ind.value)
              /\ RLe(ind.value, RInt(1))

\* C1, the part the code keeps: every value that is returned is in [0, 1].
C1_ReturnedScoreInUnitInterval ==
    (Scored /\ ind.exc = "none") =>
        RLe(RInt(0), ind.value) /\ RLe(ind.value, RInt(1))

\* C2: whenever a veto keyword is a case-insensitive substring of the Item's
\* "name cuisine" text, the score returned is exactly 0.0, whatever the
\* other fields are.
C2_VetoForcesZero ==
    (Scored /\ VetoKeywordMatches) => (ind.exc = "none" /\ ind.value = RInt(0))

\* a veto fired on an input whose dietary tags, category, price, distance and
\* ambiance would all have scored full points
C2_Witness ==
    /\ Scored
    /\ VetoKeywordMatches
    /\ ~RequiredTagMissing
    /\ ThePref.dietary_restrictions # <<>>
    /\ InList(Lower(TheItem.cuisine), LowerAll(ThePref.cuisines))
    /\ ThePref.budget = TheItem.price /\ TheItem.price \in PriceTiers
    /\ TheItem.distance = 0 /\ ThePref.max_distance > 0
    /\ InList(Lower(TheItem.ambiance), LowerAll(ThePref.ambiance))
    /\ ind.value = RInt(0)

\* C3: whenever some required dietary tag (compared case-insensitively) is
\* absent from the Item's offered tags, the score returned is exactly 0.0;
\* when the Preference lists no required tags (and no veto fires) the full
\* 25 dietary points are added to the running score.
C3_DietaryHardConstraint ==
    /\ (Scored /\ RequiredTagMissing) => (ind.exc = "none" /\ ind.value = RInt(0))
    /\ (Scored /\ ThePref.dietary_restrictions = <<>> /\ ~VetoKeywordMatches) =>
           /\ Len(ind.steps) >= 2
           /\ RSub(ind.steps[2], ind.steps[1]) = RInt(25)

\* one of two required tags is offered, the other is not, and no veto fires
C3_Witness ==
    /\ Scored
    /\ RequiredTagMissing
    /\ ~VetoKeywordMatches
    /\ \E i \in 1..Len(ThePref.dietary_restrictions) :
           InList(Lower(ThePref.dietary_restrictions[i]),
                  LowerAll(TheItem.dietary_options))
    /\ ind.value = RInt(0)

\* C5: for every Item with distance >= 0 and every Preference with a price
\* tier in {$,$$,$$$,$$$$} and max distance >= 0 (0 included), the call
\* returns a number rather than raising.
C5_NeverRaises ==
    (/\ Scored
     /\ TheItem.distance >= 0
     /\ ThePref.budget \in PriceTiers
     /\ ThePref.max_distance >= 0) => ind.exc = "none"

\* C5, the part the code keeps: with a positive max distance nothing raises.
C5_NeverRaisesPositiveMax ==
    (Scored /\ ThePref.max_distance > 0) => ind.exc = "none"

\* C6 as the claim words it
C6_PricePoints ==
    IF ThePref.budget = "" \/ TheItem.price = "" THEN 10
    ELSE LET tier(x) == IF x \in PriceTiers THEN Len(x) ELSE 2
             diff == Abs(tier(ThePref.budget) - tier(TheItem.price))
         IN  IF diff = 0 THEN 20 ELSE IF diff = 1 THEN 10 ELSE 0

\* 15 x (1 - distance/maxDistance) if distance <= maxDistance else 0, as
\* the rational 15 x (max - distance) / max
C6_DistancePoints ==
    IF TheItem.distance <= ThePref.max_distance
    THEN Rat(15 * (ThePref.max_distance - TheItem.distance), ThePref.max_distance)
    ELSE RInt(0)

C6_NoShortCircuit == ~VetoKeywordMatches /\ ~RequiredTagMissing

C6_FormulaDefined ==
    ThePref.max_distance # 0 \/ TheItem.distance > ThePref.max_distance

C6_SumOfFactors ==
    \E c \in {30, 15, 0} : \E a \in {10, 5, 0} :
        ind.value = RDiv(RAdd(RInt(25 + c + C6_PricePoints + a), C6_DistancePoints),
                         RInt(100))

\* exact category and price match at distance 5.0 with max 3.0, no ambiance
\* preference
C6_Example ==
    /\ C6_NoShortCircuit
    /\ InList(Lower(TheItem.cuisine), LowerAll(ThePref.cuisines))
    /\ ThePref.budget = TheItem.price /\ TheItem.price \in PriceTiers
    /\ TheItem.distance = 50 /\ ThePref.max_distance = 30
    /\ ThePref.ambiance = <<>>

MaxItems == 3
MaxPrefs == 2

ItemLuigi ==
    [name |-> T_Luigi, cuisine |-> T_Italian, price |-> "$$", distance |-> 12,
     dietary_options |-> <<>>, ambiance |-> T_Romantic]
ItemLuigiVegan == [ItemLuigi EXCEPT !.dietary_options = <<T_Vegan, T_Halal>>]
ItemSushiBar ==
    [name |-> T_SushiBar, cuisine |-> T_Thai, price |-> "$$$$", distance |-> 0,
     dietary_options |-> <<T_Vegan, T_Halal>>, ambiance |-> <<>>]

PrefAna ==
    [name |-> "Ana", cuisines |-> <<T_ITALIAN>>, dietary_restrictions |-> <<>>,
     budget |-> "$$", max_distance |-> 30, ambiance |-> <<>>, veto_items |-> ListOf(<<>>)]
PrefAna2 ==
    [name |-> "Ana", cuisines |-> <<T_Sushi, T_Tha>>, dietary_restrictions |-> <<>>,
     budget |-> "$$$$", max_distance |-> 30, ambiance |-> <<T_Casual>>,
     veto_items |-> NoneList]
PrefBo ==
    [name |-> "Bo", cuisines |-> <<T_ThaiFood>>, dietary_restrictions |-> <<T_vegan>>,
     budget |-> "$$$", max_distance |-> 30, ambiance |-> <<T_ROMANTIC>>,
     veto_items |-> ListOf(<<>>)]
PrefCy ==
    [name |-> "Cy", cuisines |-> <<T_ITALIAN>>, dietary_restrictions |-> <<>>,
     budget |-> "$", max_distance |-> 0, ambiance |-> <<>>, veto_items |-> ListOf(<<>>)]

GroupItems == {ItemLuigi, ItemLuigiVegan, ItemSushiBar}
GroupPrefs == {PrefAna, PrefAna2, PrefBo, PrefCy}

SeqsUpTo(S, k) == UNION {[1..m -> S] : m \in 0..k}

GroupInit ==
    /\ restaurants \in SeqsUpTo(GroupItems, MaxItems)
    /\ all_user_prefs \in SeqsUpTo(GroupPrefs, MaxPrefs)
    /\ ind = Unset
    /\ grp = Unset
    /\ ranked = Unset
    /\ LedgerIdle
    /\ SessionIdle
    /\ TrackerIdle
    /\ AppIdle

\* calculate_group_score(r, all_user_prefs) on any restaurant
GroupScore ==
    /\ grp = Unset
    /\ \E r \in GroupItems :
           grp' = [CalculateGroupScore(0, r, all_user_prefs) EXCEPT !.restaurant = r]
    /\ UNCHANGED <<restaurants, all_user_prefs, ind, ranked, users, ret, hist, noteVars, sessionVars, trackerVars, appVars>>

\* rank_restaurants(restaurants, all_user_prefs)
Rank ==
    /\ ranked = Unset
    /\ ranked' = RankRestaurants(restaurants, all_user_prefs)
    /\ UNCHANGED <<restaurants, all_user_prefs, ind, grp, users, ret, hist, noteVars, sessionVars, trackerVars, appVars>>

GroupNext == GroupScore \/ Rank

GroupSpec == GroupInit /\ [][GroupNext]_vars

(***************************************************************************)
(* Claims about calculate_group_score and rank_restaurants (GroupSpec)     *)
(***************************************************************************)
Grouped == grp # Unset
RankDone == ranked # Unset

\* the individual scores of all preferences in the list, in list order
ListScores(r) ==
    [i \in 1..Len(all_user_prefs) |-> CalculateIndividualScore(r, all_user_prefs[i])]

AllReturn(r) == \A i \in 1..Len(all_user_prefs) : ListScores(r)[i].exc = "none"

RECURSIVE SeqSum(_)
SeqSum(xs) == IF xs = <<>> THEN RInt(0) ELSE RAdd(xs[1].value, SeqSum(Tail(xs)))

SeqMin(xs) ==
    xs[CHOOSE i \in 1..Len(xs) : \A j \in 1..Len(xs) : RLe(xs[i].value, xs[j].value)].value

WeightedMeanMin(xs) ==
    RAdd(RMul(Rat(7, 10), RDiv(SeqSum(xs), RInt(Len(xs)))),
         RMul(Rat(3, 10), SeqMin(xs)))

DistinctNames ==
    \A i, j \in 1..Len(all_user_prefs) :
        i # j => all_user_prefs[i].name # all_user_prefs[j].name

\* C4: for any non-empty preference list (names need not be distinct) whose
\* individual scores are all returned, group_score = 0.7 x mean + 0.3 x min
\* over the scores of all preferences in the list, and compromise_level is
\* that min.
C4_GroupIsWeightedMeanMin ==
    (Grouped /\ all_user_prefs # <<>> /\ AllReturn(grp.restaurant)) =>
        /\ grp.exc = "none"
        /\ grp.group_score = WeightedMeanMin(ListScores(grp.restaurant))
        /\ grp.compromise_level = SeqMin(ListScores(grp.restaurant))

\* C4, the part the code keeps: the formula holds when the names in the
\* list are pairwise distinct.
C4_HoldsForDistinctNames ==
    (Grouped /\ all_user_prefs # <<>> /\ AllReturn(grp.restaurant) /\ DistinctNames) =>
        /\ grp.exc = "none"
        /\ grp.group_score = WeightedMeanMin(ListScores(grp.restaurant))
        /\ grp.compromise_level = SeqMin(ListScores(grp.restaurant))

OnePerItem ==
    /\ Len(ranked.results) = Len(restaurants)
    /\ {ranked.results[i].restaurant : i \in 1..Len(ranked.results)}
           = 1..Len(restaurants)

StableDescending ==
    \A i, j \in 1..Len(ranked.results) :
        i < j =>
            /\ RLe(ranked.results[j].group_score, ranked.results[i].group_score)
            /\ ranked.results[i].group_score = ranked.results[j].group_score
                   => ranked.results[i].restaurant < ranked.results[j].restaurant

\* C7: rank_restaurants returns exactly one result per input item, ordered
\* by non-increasing group_score, equal scores kept in input order.
C7_RankedStableDescending ==
    RankDone => (ranked.exc = "none" /\ OnePerItem /\ StableDescending)

\* C7, the part the code keeps: whenever rank_restaurants returns, its
\* result has one entry per item, in stable descending order.
C7_StableDescendingWhenReturned ==
    (RankDone /\ ranked.exc = "none") => (OnePerItem /\ StableDescending)

\* C8: with an empty preference list calculate_group_score returns
\* group_score 0, compromise_level 0, an empty score map and the
\* explanatory message, and rank_restaurants does not raise and gives every
\* item group_score 0; with an empty item list rank_restaurants returns [].
C8_NoParticipantsNoDivision ==
    /\ (Grouped /\ all_user_prefs = <<>>) =>
           /\ grp.exc = "none"
           /\ grp.group_score = RInt(0)
           /\ grp.compromise_level = RInt(0)
           /\ grp.individual_scores = <<>>
           /\ grp.explanation.kind = "no_users_to_score"
    /\ (RankDone /\ all_user_prefs = <<>>) =>
           /\ ranked.exc = "none"
           /\ Len(ranked.results) = Len(restaurants)
           /\ \A i \in 1..Len(ranked.results) :
                  ranked.results[i].group_score = RInt(0)
    /\ (RankDone /\ restaurants = <<>>) =>
           (ranked.exc = "none" /\ ranked.results = <<>>)

\* both calls have been made with no participants and no items
C8_Witness ==
    /\ all_user_prefs = <<>>
    /\ restaurants = <<>>
    /\ Grouped /\ grp.explanation.kind = "no_users_to_score"
    /\ RankDone /\ ranked.results = <<>>

(***************************************************************************)
(* UserManager (user_manager.py).  self.users is a list of profiles in     *)
(* dict insertion order; a profile's businesses are a list of progress     *)
(* records in insertion order.  Timestamps are left out.  _save_data       *)
(* writes self.users to the data file after every change; with the single  *)
(* UserManager object modelled here the file always equals self.users.     *)
(***************************************************************************)
HasUser(us, u) == \E i \in 1..Len(us) : us[i].username = u
UserIdx(us, u) == CHOOSE i \in 1..Len(us) : us[i].username = u

NewProfileOneAttempt(u) ==
    [username |-> u, businesses |-> <<>>, total_attempts |-> 1,
     total_score |-> 0, badges |-> <<>>, certificates |-> <<>>]

\* lines 49-57
NewProfile(u) ==
    [username |-> u, businesses |-> <<>>, total_attempts |-> 0,
     total_score |-> 0, badges |-> <<>>, certificates |-> <<>>]

\* get_or_create_user: self.users afterwards
GetOrCreateUser(us, u) == IF HasUser(us, u) THEN us ELSE Append(us, NewProfile(u))

HasBusiness(user, b) == \E i \in 1..Len(user.businesses) : user.businesses[i].name = b
BusinessIdx(user, b) == CHOOSE i \in 1..Len(user.businesses) : user.businesses[i].name = b

RemoveAt(xs, k) == [i \in 1..(Len(xs) - 1) |-> IF i < k THEN xs[i] ELSE xs[i + 1]]

\* sorted(list(completed_scenarios))
RECURSIVE SortedList(_)
SortedList(S) ==
    IF S = {} THEN <<>>
    ELSE LET m == CHOOSE x \in S : \A y \in S : x <= y
         IN  <<m>> \o SortedList(S \ {m})

SaveProgressInProfileCompletedByScores(user, b, location, business_type, total_scenarios, completed_scenarios, scores, scenario_titles) ==
    LET fresh == [name |-> b, location |-> location, business_type |-> business_type,
                  total_scenarios |-> total_scenarios, completed_scenarios |-> <<>>,
                  scores |-> <<>>, scenario_titles |-> scenario_titles,
                  attempts |-> 0, completed |-> FALSE]
        bs == IF HasBusiness(user, b) THEN user.businesses
              ELSE Append(user.businesses, fresh)
        k == CHOOSE i \in 1..Len(bs) : bs[i].name = b
        business_data ==
            [bs[k] EXCEPT !.total_scenarios = total_scenarios,
                          !.completed_scenarios = SortedList(completed_scenarios),
                          !.scores = scores,
                          !.scenario_titles = scenario_titles,
                          !.attempts = Len(scores),
                          !.completed = (Len(scores) = total_scenarios)]
    IN  [user EXCEPT !.businesses = [bs EXCEPT ![k] = business_data],
                     !.total_attempts = @ + 1,
                     !.total_score = IF scores # <<>> THEN @ + scores[Len(scores)] ELSE @]

\* lines 99-125, on the profile
SaveProgressInProfile(user, b, location, business_type, total_scenarios, completed_scenarios, scores, scenario_titles) ==
    LET fresh == [name |-> b, location |-> location, business_type |-> business_type,
                  total_scenarios |-> total_scenarios, completed_scenarios |-> <<>>,
                  scores |-> <<>>, scenario_titles |-> scenario_titles,
                  attempts |-> 0, completed |-> FALSE]
        bs == IF HasBusiness(user, b) THEN user.businesses
              ELSE Append(user.businesses, fresh)
        k == CHOOSE i \in 1..Len(bs) : bs[i].name = b
        business_data ==
            [bs[k] EXCEPT !.total_scenarios = total_scenarios,
                          !.completed_scenarios = SortedList(completed_scenarios),
                          !.scores = scores,
                          !.scenario_titles = scenario_titles,
                          !.attempts = Len(scores),
                          !.completed = (Cardinality(completed_scenarios) = total_scenarios)]
    IN  [user EXCEPT !.businesses = [bs EXCEPT ![k] = business_data],
                     !.total_attempts = @ + 1,
                     !.total_score = IF scores # <<>> THEN @ + scores[Len(scores)] ELSE @]

\* save_business_progress: self.users afterwards
SaveBusinessProgress(us, u, b, location, business_type, total_scenarios, completed_scenarios, scores, scenario_titles) ==
    LET us1 == GetOrCreateUser(us, u)
        k == UserIdx(us1, u)
    IN  [us1 EXCEPT ![k] = SaveProgressInProfile(us1[k], b, location, business_type,
                                                 total_scenarios, completed_scenarios,
                                                 scores, scenario_titles)]

\* lines 139-154, on the certificate list
AwardInListAlwaysReplace(certs, b, avg_score) ==
    LET cert == [business_name |-> b, avg_score |-> avg_score]
        existing == SelectSeq(certs, LAMBDA c : c.business_name = b)
    IN  IF existing # <<>>
        THEN LET k == CHOOSE i \in 1..Len(certs) :
                          /\ certs[i] = existing[1]
                          /\ \A j \in 1..(i - 1) : certs[j] # existing[1]
             IN  Append(RemoveAt(certs, k), cert)
        ELSE Append(certs, cert)

AwardInList(certs, b, avg_score) ==
    LET cert == [business_name |-> b, avg_score |-> avg_score]
        existing == SelectSeq(certs, LAMBDA c : c.business_name = b)
    IN  IF existing # <<>>
        THEN IF avg_score > existing[1].avg_score
             THEN LET k == CHOOSE i \in 1..Len(certs) :
                               /\ certs[i] = existing[1]
                               /\ \A j \in 1..(i - 1) : certs[j] # existing[1]
                  IN  Append(RemoveAt(certs, k), cert)
             ELSE certs
        ELSE Append(certs, cert)

\* award_certificate: self.users afterwards
AwardCertificate(us, u, b, avg_score) ==
    LET us1 == GetOrCreateUser(us, u)
        k == UserIdx(us1, u)
    IN  [us1 EXCEPT ![k].certificates = AwardInList(@, b, avg_score)]

\* clear_business_progress: self.users afterwards
ClearBusinessProgress(us, u, b) ==
    LET us1 == GetOrCreateUser(us, u)
        k == UserIdx(us1, u)
    IN  IF HasBusiness(us1[k], b)
        THEN [us1 EXCEPT ![k].businesses = RemoveAt(@, BusinessIdx(us1[k], b))]
        ELSE us1

DeleteUserFirst(us, u) == IF HasUser(us, u) THEN Tail(us) ELSE us

\* delete_user: self.users afterwards
DeleteUser(us, u) == IF HasUser(us, u) THEN RemoveAt(us, UserIdx(us, u)) ELSE us

\* a / b as Python evaluates it
Divide(a, b) ==
    IF b = 0 THEN [exc |-> "ZeroDivisionError", value |-> RInt(0)]
    ELSE [exc |-> "none", value |-> Rat(a, b)]

AvgScoreOfUnguarded(user) == Divide(user.total_score, user.total_attempts)

\* lines 186-188
AvgScoreOf(user) ==
    IF user.total_attempts > 0
    THEN Divide(user.total_score, user.total_attempts)
    ELSE [exc |-> "none", value |-> RInt(0)]

\* lines 181-197, on the profile
StatsOf(user) ==
    [total_attempts |-> user.total_attempts,
     avg_score |-> AvgScoreOf(user).value,
     total_businesses |-> Len(user.businesses),
     completed_businesses |->
         Cardinality({i \in 1..Len(user.businesses) : user.businesses[i].completed}),
     badges |-> user.badges,
     certificates_count |-> Len(user.certificates)]

\* leaderboard.sort(key=lambda x: x["avg_score"], reverse=True): stable
RECURSIVE InsertByAvg(_, _)
InsertByAvg(sorted, x) ==
    IF sorted = <<>> THEN <<x>>
    ELSE IF RLt(sorted[1].avg_score, x.avg_score)
         THEN <<x>> \o sorted
         ELSE <<sorted[1]>> \o InsertByAvg(Tail(sorted), x)

RECURSIVE SortByAvg(_, _)
SortByAvg(xs, acc) ==
    IF xs = <<>> THEN acc ELSE SortByAvg(Tail(xs), InsertByAvg(acc, Head(xs)))

\* lines 261-267: the entry of one user
LeaderboardEntry(user, stats) ==
    [username |-> user.username, total_attempts |-> stats.total_attempts,
     avg_score |-> stats.avg_score,
     completed_businesses |-> stats.completed_businesses,
     certificates |-> stats.certificates_count]

\* get_all_users_leaderboard
RECURSIVE LeaderboardRowsNoFilter(_)
LeaderboardRowsNoFilter(us) ==
    IF us = <<>> THEN <<>>
    ELSE <<LeaderboardEntry(Head(us), StatsOf(Head(us)))>>
             \o LeaderboardRowsNoFilter(Tail(us))

RECURSIVE LeaderboardRows(_)
LeaderboardRows(us) ==
    IF us = <<>> THEN <<>>
    ELSE (IF StatsOf(Head(us)).total_attempts > 0
          THEN <<LeaderboardEntry(Head(us), StatsOf(Head(us)))>>
          ELSE <<>>) \o LeaderboardRows(Tail(us))

GetAllUsersLeaderboard(us) == SortByAvg(LeaderboardRows(us), <<>>)

\* sum(business_data["scores"])
RECURSIVE SumScores(_)
SumScores(scores) ==
    IF scores = <<>> THEN 0 ELSE Head(scores) + SumScores(Tail(scores))

\* lines 287-300: the entry of one user on one business
BusinessEntry(user, business_data) ==
    [username |-> user.username,
     avg_score |-> IF business_data.scores # <<>>
                   THEN Rat(SumScores(business_data.scores), Len(business_data.scores))
                   ELSE RInt(0),
     attempts |-> business_data.attempts,
     completed_scenarios |-> Len(business_data.completed_scenarios),
     total_scenarios |-> business_data.total_scenarios,
     completed |-> business_data.completed]

\* lines 283-300: one entry per user that has business_name among its businesses
RECURSIVE BusinessRows(_, _)
BusinessRows(us, business_name) ==
    IF us = <<>> THEN <<>>
    ELSE (IF HasBusiness(Head(us), business_name)
          THEN <<BusinessEntry(Head(us),
                               Head(us).businesses[BusinessIdx(Head(us), business_name)])>>
          ELSE <<>>) \o BusinessRows(Tail(us), business_name)

\* the sort key (x["avg_score"], x["completed"]) compared as Python compares
\* tuples, False < True
KeyLessAvgOnly(x, y) == RLt(x.avg_score, y.avg_score)

KeyLess(x, y) ==
    \/ RLt(x.avg_score, y.avg_score)
    \/ x.avg_score = y.avg_score /\ ~x.completed /\ y.completed

\* leaderboard.sort(key=..., reverse=True): stable, largest key first
RECURSIVE InsertByKey(_, _)
InsertByKey(sorted, x) ==
    IF sorted = <<>> THEN <<x>>
    ELSE IF KeyLess(sorted[1], x)
         THEN <<x>> \o sorted
         ELSE <<sorted[1]>> \o InsertByKey(Tail(sorted), x)

RECURSIVE SortByKey(_, _)
SortByKey(xs, acc) ==
    IF xs = <<>> THEN acc ELSE SortByKey(Tail(xs), InsertByKey(acc, Head(xs)))

GetBusinessLeaderboard(us, business_name) ==
    SortByKey(BusinessRows(us, business_name), <<>>)

\* get_business_progress: user["businesses"].get(business_name)
GetBusinessProgress(us, u, business_name) ==
    LET us1 == GetOrCreateUser(us, u)
        user == us1[UserIdx(us1, u)]
    IN  IF HasBusiness(user, business_name)
        THEN [is_none |-> FALSE, data |-> user.businesses[BusinessIdx(user, business_name)]]
        ELSE [is_none |-> TRUE]

\* lines 210-221, on what get_business_progress returned.  A stored progress
\* record is a non-empty dict, so `not progress` holds only for None.
SessionStateOf(progress) ==
    IF progress.is_none THEN [is_none |-> TRUE]
    ELSE IF progress.data.completed THEN [is_none |-> TRUE]
    ELSE [is_none |-> FALSE,
          completed_scenarios |->
              {progress.data.completed_scenarios[i] :
                   i \in 1..Len(progress.data.completed_scenarios)},
          scores |-> progress.data.scores,
          scenario_titles |-> progress.data.scenario_titles]

(***************************************************************************)
(* The UserManager calls as actions.  A call that returns None leaves      *)
(* ret = NoRet.                                                            *)
(***************************************************************************)
MaxAttempts == 2

EngineIdle ==
    /\ restaurants = <<>>
    /\ all_user_prefs = <<>>
    /\ ind = Unset
    /\ grp = Unset
    /\ ranked = Unset

LedgerInit ==
    /\ EngineIdle
    /\ LedgerIdle
    /\ SessionIdle
    /\ TrackerIdle
    /\ AppIdle

AllTitles == <<"Scenario 1", "Scenario 2">>

AttemptsOf(u) == IF HasUser(users, u) THEN users[UserIdx(users, u)].total_attempts ELSE 0

DoSaveBusinessProgress(u, b, total_scenarios, completed_scenarios, scores) ==
    /\ AttemptsOf(u) < MaxAttempts
    /\ users' = SaveBusinessProgress(users, u, b, "Austin", "restaurant",
                                     total_scenarios, completed_scenarios, scores,
                                     SubSeq(AllTitles, 1, total_scenarios))
    /\ ret' = NoRet
    /\ UNCHANGED <<engineVars, sessionVars, trackerVars, appVars, hist>>

DoAwardCertificate(u, b, avg_score) ==
    /\ users' = AwardCertificate(users, u, b, avg_score)
    /\ ret' = NoRet
    /\ hist' = {[h EXCEPT !.latest = IF h.user = u /\ h.business = b
                                      THEN FALSE ELSE h.latest] : h \in hist}
                   \cup {[user |-> u, business |-> b, score |-> avg_score,
                          latest |-> TRUE]}
    /\ UNCHANGED <<engineVars, sessionVars, trackerVars, appVars>>

DoClearBusinessProgress(u, b) ==
    /\ users' = ClearBusinessProgress(users, u, b)
    /\ ret' = NoRet
    /\ UNCHANGED <<engineVars, sessionVars, trackerVars, appVars, hist>>

DoDeleteUser(u) ==
    /\ users' = DeleteUser(users, u)
    /\ ret' = [op |-> "delete_user", value |-> HasUser(users, u)]
    /\ hist' = {h \in hist : h.user # u}
    /\ UNCHANGED <<engineVars, sessionVars, trackerVars, appVars>>

DoGetAllUsersLeaderboard ==
    /\ ret' = [op |-> "get_all_users_leaderboard",
               value |-> GetAllUsersLeaderboard(users)]
    /\ UNCHANGED <<engineVars, sessionVars, trackerVars, appVars, users, hist>>

DoGetBusinessLeaderboard(b) ==
    /\ ret' = [op |-> "get_business_leaderboard", business |-> b,
               value |-> GetBusinessLeaderboard(users, b)]
    /\ UNCHANGED <<engineVars, sessionVars, trackerVars, appVars, users, hist>>

DoGetUserStats(u) ==
    /\ users' = GetOrCreateUser(users, u)
    /\ ret' = [op |-> "get_user_stats", user |-> u,
               exc |-> AvgScoreOf(users'[UserIdx(users', u)]).exc,
               value |-> StatsOf(users'[UserIdx(users', u)])]
    /\ UNCHANGED <<engineVars, sessionVars, trackerVars, appVars, hist>>

DoGetBusinessProgress(u, b) ==
    /\ users' = GetOrCreateUser(users, u)
    /\ ret' = [op |-> "get_business_progress", user |-> u, business |-> b,
               value |-> GetBusinessProgress(users, u, b)]
    /\ UNCHANGED <<engineVars, sessionVars, trackerVars, appVars, hist>>

DoGetUserCertificates(u) ==
    /\ users' = GetOrCreateUser(users, u)
    /\ ret' = [op |-> "get_user_certificates", user |-> u,
               value |-> users'[UserIdx(users', u)].certificates]
    /\ UNCHANGED <<engineVars, sessionVars, trackerVars, appVars, hist>>

DoLoadSessionState(u, b) ==
    /\ users' = GetOrCreateUser(users, u)
    /\ ret' = [op |-> "load_session_state", user |-> u, business |-> b,
               value |-> SessionStateOf(GetBusinessProgress(users, u, b))]
    /\ UNCHANGED <<engineVars, sessionVars, trackerVars, appVars, hist>>

(***************************************************************************)
(* CertSpec: certificates of two users on two businesses                   *)
(***************************************************************************)
CertUsers == {"ann", "bob"}
CertBusinesses == {"Cafe", "Deli"}
CertAwards ==
    {[business |-> "Cafe", avg_score |-> 8],
     [business |-> "Cafe", avg_score |-> 9],
     [business |-> "Deli", avg_score |-> 9]}

CertSave == \E u \in CertUsers :
                /\ DoSaveBusinessProgress(u, "Cafe", 1, {0}, <<9>>)
                /\ UNCHANGED noteVars
CertAward == \E u \in CertUsers, a \in CertAwards :
                 /\ DoAwardCertificate(u, a.business, a.avg_score)
                 /\ UNCHANGED noteVars
CertClear == \E u \in CertUsers, b \in CertBusinesses :
                 /\ DoClearBusinessProgress(u, b)
                 /\ UNCHANGED noteVars
CertDelete == \E u \in CertUsers : DoDeleteUser(u) /\ UNCHANGED noteVars

CertNext == CertSave \/ CertAward \/ CertClear \/ CertDelete

CertSpec == LedgerInit /\ [][CertNext]_vars

(***************************************************************************)
(* BoardSpec: attempts and scores of three users on one business           *)
(***************************************************************************)
BoardUsers == {"ann", "bob", "cy"}
BoardSaves ==
    {[completed |-> {}, scores |-> <<>>],
     [completed |-> {0}, scores |-> <<9>>]}

BoardSave == \E u \in BoardUsers, a \in BoardSaves :
                 /\ DoSaveBusinessProgress(u, "Cafe", 1, a.completed, a.scores)
                 /\ UNCHANGED noteVars
BoardClear == \E u \in BoardUsers :
                  DoClearBusinessProgress(u, "Cafe") /\ UNCHANGED noteVars
BoardDelete == \E u \in BoardUsers : DoDeleteUser(u) /\ UNCHANGED noteVars
BoardLeaderboard == DoGetAllUsersLeaderboard /\ UNCHANGED noteVars

BoardNext ==
    \/ BoardSave
    \/ BoardClear
    \/ BoardDelete
    \/ BoardLeaderboard

BoardSpec == LedgerInit /\ [][BoardNext]_vars

(***************************************************************************)
(* Claims about the ledger                                                 *)
(***************************************************************************)
CertsFor(user, b) == SelectSeq(user.certificates, LAMBDA c : c.business_name = b)

Passed(u, b) == {h.score : h \in {x \in hist : x.user = u /\ x.business = b}}

MaxOf(S) == CHOOSE x \in S : \A y \in S : y <= x

\* C9: after any sequence of award_certificate, save_business_progress and
\* clear_business_progress calls, a user holds at most one certificate per
\* business name, and its avg_score is the maximum avg_score ever passed to
\* award_certificate for that (user, business) pair.
C9_OneCertificateMaxScore ==
    /\ \A h \in hist : HasUser(users, h.user)
    /\ \A i \in 1..Len(users) : \A b \in CertBusinesses :
           LET certs == CertsFor(users[i], b)
               passed == Passed(users[i].username, b)
           IN  /\ Len(certs) <= 1
               /\ passed = {} => certs = <<>>
               /\ passed # {} => (Len(certs) = 1 /\ certs[1].avg_score = MaxOf(passed))

\* a user whose latest award for a business was lower than an earlier one
\* still holds the higher certificate, holds another business's certificate
\* too, and has had progress saved and cleared
C9_Witness ==
    \E i \in 1..Len(users) : \E b, b2 \in CertBusinesses :
        /\ b # b2
        /\ [user |-> users[i].username, business |-> b, score |-> 8, latest |-> TRUE]
               \in hist
        /\ CertsFor(users[i], b) = <<[business_name |-> b, avg_score |-> 9]>>
        /\ Len(CertsFor(users[i], b2)) = 1
        /\ users[i].total_attempts > 0
        /\ users[i].businesses = <<>>

BoardReturned == ret.op = "get_all_users_leaderboard"

Trained == {i \in 1..Len(users) : users[i].total_attempts > 0}

\* C10: get_all_users_leaderboard contains exactly the users whose
\* total_attempts > 0, each once, with avg_score = total_score /
\* total_attempts, listed in non-increasing avg_score order.
C10_LeaderboardTrainedUsersDescending ==
    BoardReturned =>
        /\ Len(ret.value) = Cardinality(Trained)
        /\ {ret.value[k].username : k \in 1..Len(ret.value)}
               = {users[i].username : i \in Trained}
        /\ \A k \in 1..Len(ret.value) : \A i \in Trained :
               ret.value[k].username = users[i].username =>
                   /\ ret.value[k].total_attempts = users[i].total_attempts
                   /\ ret.value[k].avg_score.n * users[i].total_attempts
                          = users[i].total_score * ret.value[k].avg_score.d
        /\ \A k, l \in 1..Len(ret.value) :
               k < l => RLe(ret.value[l].avg_score, ret.value[k].avg_score)

\* a leaderboard of two trained users, the one created later ranked first,
\* returned while a third user with no attempts has a profile
C10_Witness ==
    /\ BoardReturned
    /\ Len(ret.value) = 2
    /\ RLt(ret.value[2].avg_score, ret.value[1].avg_score)
    /\ \E i, j \in Trained :
           i < j /\ ret.value[1].username = users[j].username
                 /\ ret.value[2].username = users[i].username
    /\ \E i \in 1..Len(users) : users[i].total_attempts = 0

(***************************************************************************)
(* BizSpec: progress of three users on a business, and its leaderboard     *)
(***************************************************************************)
BizUsers == {"ann", "bob", "cy"}
BizSaves ==
    {[business |-> "Cafe", total |-> 1, completed |-> {0}, scores |-> <<9>>],
     [business |-> "Cafe", total |-> 2, completed |-> {0}, scores |-> <<9>>],
     [business |-> "Cafe", total |-> 2, completed |-> {0, 1}, scores |-> <<9, 7>>]}

BizSave == \E u \in BizUsers, a \in BizSaves :
               /\ DoSaveBusinessProgress(u, a.business, a.total, a.completed, a.scores)
               /\ UNCHANGED noteVars
BizClear == \E u \in BizUsers :
                DoClearBusinessProgress(u, "Cafe") /\ UNCHANGED noteVars
BizLeaderboard == DoGetBusinessLeaderboard("Cafe") /\ UNCHANGED noteVars

BizNext ==
    \/ BizSave
    \/ BizClear
    \/ BizLeaderboard

BizSpec == LedgerInit /\ [][BizNext]_vars

BizReturned == ret.op = "get_business_leaderboard"

OnBusiness(b) == {i \in 1..Len(users) : HasBusiness(users[i], b)}

ScoresOn(i, b) == users[i].businesses[BusinessIdx(users[i], b)].scores

\* C11: get_business_leaderboard(b) contains exactly the users that have
\* stored progress on b (each once, with the mean of its stored scores),
\* ordered by avg_score descending, and among entries of equal avg_score
\* every completed entry comes before every incomplete one.
C11_BusinessLeaderboardOrder ==
    BizReturned =>
        /\ Len(ret.value) = Cardinality(OnBusiness(ret.business))
        /\ {ret.value[k].username : k \in 1..Len(ret.value)}
               = {users[i].username : i \in OnBusiness(ret.business)}
        /\ \A k \in 1..Len(ret.value) : \A i \in OnBusiness(ret.business) :
               ret.value[k].username = users[i].username =>
                   /\ ret.value[k].avg_score.n * Len(ScoresOn(i, ret.business))
                          = SumScores(ScoresOn(i, ret.business)) * ret.value[k].avg_score.d
                   /\ ret.value[k].completed
                          = users[i].businesses[BusinessIdx(users[i], ret.business)].completed
        /\ \A k, l \in 1..Len(ret.value) :
               k < l =>
                   /\ RLe(ret.value[l].avg_score, ret.value[k].avg_score)
                   /\ (ret.value[l].avg_score = ret.value[k].avg_score
                          /\ ret.value[l].completed) => ret.value[k].completed

\* two entries of equal avg_score, the completed one first although its user
\* saved later, returned while a third user has a profile without progress on
\* the business
C11_Witness ==
    /\ BizReturned
    /\ Len(ret.value) >= 2
    /\ ret.value[1].avg_score = ret.value[2].avg_score
    /\ ret.value[1].completed /\ ~ret.value[2].completed
    /\ \E i, j \in OnBusiness(ret.business) :
           i < j /\ ret.value[1].username = users[j].username
                 /\ ret.value[2].username = users[i].username
    /\ \E i \in 1..Len(users) : i \notin OnBusiness(ret.business)

(***************************************************************************)
(* ProfileSpec: every UserManager call on two users and one business.      *)
(* call records the call last made and whether its user had a profile;     *)
(* deleted holds the users deleted and not saved to or awarded since.      *)
(***************************************************************************)
ProfileUsers == {"ann", "bob"}
ProfileSaves ==
    {[total |-> 1, completed |-> {0}, scores |-> <<9>>],
     [total |-> 2, completed |-> {0}, scores |-> <<9, 7>>],
     [total |-> 1, completed |-> {0, 1}, scores |-> <<>>]}

Note(op, u, b) ==
    call' = [op |-> op, user |-> u, business |-> b, known |-> HasUser(users, u)]

ProfileSave == \E u \in ProfileUsers, a \in ProfileSaves :
                   /\ DoSaveBusinessProgress(u, "Cafe", a.total, a.completed, a.scores)
                   /\ Note("save_business_progress", u, "Cafe")
                   /\ deleted' = deleted \ {u}
ProfileAward == \E u \in ProfileUsers :
                    /\ DoAwardCertificate(u, "Cafe", 9)
                    /\ Note("award_certificate", u, "Cafe")
                    /\ deleted' = deleted \ {u}
ProfileClear == \E u \in ProfileUsers :
                    /\ DoClearBusinessProgress(u, "Cafe")
                    /\ Note("clear_business_progress", u, "Cafe")
                    /\ UNCHANGED deleted
ProfileDelete == \E u \in ProfileUsers :
                     /\ DoDeleteUser(u)
                     /\ Note("delete_user", u, "")
                     /\ deleted' = IF HasUser(users, u) THEN deleted \cup {u} ELSE deleted
ProfileStats == \E u \in ProfileUsers :
                    /\ DoGetUserStats(u)
                    /\ Note("get_user_stats", u, "")
                    /\ UNCHANGED deleted
ProfileProgress == \E u \in ProfileUsers :
                       /\ DoGetBusinessProgress(u, "Cafe")
                       /\ Note("get_business_progress", u, "Cafe")
                       /\ UNCHANGED deleted
ProfileCertificates == \E u \in ProfileUsers :
                           /\ DoGetUserCertificates(u)
                           /\ Note("get_user_certificates", u, "")
                           /\ UNCHANGED deleted
ProfileLoad == \E u \in ProfileUsers :
                   /\ DoLoadSessionState(u, "Cafe")
                   /\ Note("load_session_state", u, "Cafe")
                   /\ UNCHANGED deleted
ProfileLeaderboard ==
    /\ DoGetAllUsersLeaderboard
    /\ Note("get_all_users_leaderboard", "", "")
    /\ UNCHANGED deleted

ProfileNext ==
    \/ ProfileSave
    \/ ProfileAward
    \/ ProfileClear
    \/ ProfileDelete
    \/ ProfileStats
    \/ ProfileProgress
    \/ ProfileCertificates
    \/ ProfileLoad
    \/ ProfileLeaderboard

ProfileSpec == LedgerInit /\ [][ProfileNext]_vars

ProfileOf(u) == users[UserIdx(users, u)]

\* C12: get_user_stats reports avg_score = total_score / total_attempts when
\* total_attempts > 0 and 0.0 when there are no attempts, and never divides
\* by zero in any reachable ledger state.
C12_StatsAverage ==
    ret.op = "get_user_stats" =>
        /\ ret.exc = "none"
        /\ ret.value.total_attempts = ProfileOf(ret.user).total_attempts
        /\ ret.value.total_attempts > 0 =>
               ret.value.avg_score.n * ProfileOf(ret.user).total_attempts
                   = ProfileOf(ret.user).total_score * ret.value.avg_score.d
        /\ ret.value.total_attempts = 0 => ret.value.avg_score = RInt(0)

\* stats have been read for a user without attempts, while another user's
\* two attempts average 8
C12_Witness ==
    /\ ret.op = "get_user_stats"
    /\ ret.value.total_attempts = 0
    /\ \E i \in 1..Len(users) : users[i].total_attempts = 2 /\ users[i].total_score = 16

\* the calls C13 names
GetOrCreateCalls ==
    {"get_user_stats", "get_business_progress", "get_user_certificates",
     "award_certificate", "save_business_progress"}

ReadCalls == {"get_user_stats", "get_business_progress", "get_user_certificates"}

EmptyProfile(u) ==
    [username |-> u, businesses |-> <<>>, total_attempts |-> 0, total_score |-> 0,
     badges |-> <<>>, certificates |-> <<>>]

\* C13: get_user_stats, get_business_progress, get_user_certificates,
\* award_certificate and save_business_progress on an unknown username do
\* not fail: they first create a profile with zero attempts, zero score sum,
\* no businesses, no badges and no certificates, then proceed on it.
C13_UnknownUserGetsEmptyProfile ==
    (call.op \in GetOrCreateCalls /\ ~call.known) =>
        /\ HasUser(users, call.user)
        /\ call.op \in ReadCalls => ProfileOf(call.user) = EmptyProfile(call.user)
        /\ call.op = "get_user_stats" =>
               /\ ret.exc = "none"
               /\ ret.value = [total_attempts |-> 0, avg_score |-> RInt(0),
                               total_businesses |-> 0, completed_businesses |-> 0,
                               badges |-> <<>>, certificates_count |-> 0]
        /\ call.op = "get_business_progress" => ret.value.is_none
        /\ call.op = "get_user_certificates" => ret.value = <<>>
        /\ call.op = "award_certificate" =>
               /\ [ProfileOf(call.user) EXCEPT !.certificates = <<>>]
                      = EmptyProfile(call.user)
               /\ Len(ProfileOf(call.user).certificates) = 1
               /\ ProfileOf(call.user).certificates[1].business_name = call.business
        /\ call.op = "save_business_progress" =>
               /\ [ProfileOf(call.user) EXCEPT !.businesses = <<>>,
                                               !.total_attempts = 0,
                                               !.total_score = 0]
                      = EmptyProfile(call.user)
               /\ ProfileOf(call.user).total_attempts = 1
               /\ Len(ProfileOf(call.user).businesses) = 1
               /\ ProfileOf(call.user).businesses[1].name = call.business
               /\ ProfileOf(call.user).total_score
                      = LET scores == ProfileOf(call.user).businesses[1].scores
                        IN  IF scores = <<>> THEN 0 ELSE scores[Len(scores)]

\* a certificate has been awarded to a username that had no profile, after
\* that user was deleted, while the other user has a profile with attempts
C13_Witness ==
    /\ call.op = "award_certificate" /\ ~call.known
    /\ HasUser(users, call.user)
    /\ Len(users) = 2
    /\ \E i \in 1..Len(users) : users[i].total_attempts > 0

OnBoard(us, u) ==
    \E k \in 1..Len(GetAllUsersLeaderboard(us)) :
        GetAllUsersLeaderboard(us)[k].username = u

\* the result of delete_user, and what holds of a deleted user
C19_Deleted ==
    /\ call.op = "delete_user" =>
           /\ ret.value = call.known
           /\ ~HasUser(users, call.user)
    /\ \A u \in deleted :
           /\ HasUser(users, u) =>
                  /\ ProfileOf(u).businesses = <<>>
                  /\ ProfileOf(u).certificates = <<>>
           /\ ~OnBoard(users, u)
           /\ ret.op = "get_all_users_leaderboard" =>
                  \A k \in 1..Len(ret.value) : ret.value[k].username # u
           /\ (ret.op = "get_business_progress" /\ ret.user = u) => ret.value.is_none
           /\ (ret.op = "get_user_certificates" /\ ret.user = u) => ret.value = <<>>

\* a delete_user step leaves the profiles of all other users as they were
C19_OthersUnchanged ==
    call'.op = "delete_user" =>
        LET u == call'.user
        IN  users' = SelectSeq(users, LAMBDA x : x.username # u)

\* C19: delete_user(u) returns True exactly when u had a profile; after a
\* successful delete u has no business progress and no certificates and is
\* absent from the global leaderboard, even if later read operations
\* re-create an empty profile for u; every other user's data is unchanged.
C19_DeleteUser == [](C19_Deleted) /\ [][C19_OthersUnchanged]_vars

\* a deleted user whose profile a later read re-created, listed after the
\* other user, who still has attempts, progress and a certificate; the
\* leaderboard has just been returned
C19_Witness ==
    /\ ret.op = "get_all_users_leaderboard"
    /\ Len(ret.value) = 1
    /\ \E u \in deleted : HasUser(users, u)
    /\ \E i \in 1..Len(users) :
           /\ users[i].username \notin deleted
           /\ users[i].total_attempts > 0
           /\ users[i].businesses # <<>>
           /\ users[i].certificates # <<>>

StoredCompletedRight ==
    \A i \in 1..Len(users) : \A k \in 1..Len(users[i].businesses) :
        users[i].businesses[k].completed
            <=> (Len(users[i].businesses[k].completed_scenarios)
                     = users[i].businesses[k].total_scenarios)

\* C20: each stored BusinessProgress has completed = true exactly when the
\* number of its completed scenario indices equals its total_scenarios, and
\* load_session_state returns saved progress only for a business that
\* exists and is not completed.
C20_CompletedFlagAndResume ==
    /\ StoredCompletedRight
    /\ (ret.op = "load_session_state" /\ ~ret.value.is_none) =>
           /\ HasBusiness(ProfileOf(ret.user), ret.business)
           /\ LET data == ProfileOf(ret.user).businesses[
                              BusinessIdx(ProfileOf(ret.user), ret.business)]
              IN  /\ ~data.completed
                  /\ ret.value.scores = data.scores
                  /\ ret.value.completed_scenarios
                         = {data.completed_scenarios[i] :
                                i \in 1..Len(data.completed_scenarios)}

\* saved progress was returned for a business with two scores and one of two
\* scenarios completed, while the other user's progress is completed
C20_Witness ==
    /\ ret.op = "load_session_state" /\ ~ret.value.is_none
    /\ Len(ret.value.scores) = 2
    /\ \E i \in 1..Len(users) :
           users[i].businesses # <<>> /\ users[i].businesses[1].completed

(***************************************************************************)
(* SessionManager (session_manager.py).  The storage file is the list of   *)
(* stored sessions in dict order; every method loads the file, works on    *)
(* the loaded dict and saves it, and here each call runs from its load to  *)
(* its save without another call in between.  asdict, json.dumps and       *)
(* json.loads keep the strings, lists, numbers and booleans of a session   *)
(* as they are; timestamps are left out.                                   *)
(***************************************************************************)
HasSession(ss, session_id) == \E i \in 1..Len(ss) : ss[i].session_id = session_id
SessionAt(ss, session_id) == CHOOSE i \in 1..Len(ss) : ss[i].session_id = session_id

CreateSessionAlone(ss, session_id, location) ==
    << [session_id |-> session_id, location |-> location, participants |-> <<>>,
        results_ready |-> FALSE] >>

\* lines 69-79: sessions[session_id] = asdict(session)
CreateSession(ss, session_id, location) ==
    LET session == [session_id |-> session_id, location |-> location,
                    participants |-> <<>>, results_ready |-> FALSE]
    IN  IF HasSession(ss, session_id)
        THEN [ss EXCEPT ![SessionAt(ss, session_id)] = session]
        ELSE Append(ss, session)

\* get_session: None, or the stored session
GetSession(ss, session_id) ==
    IF ~HasSession(ss, session_id)
    THEN [exc |-> "none", is_none |-> TRUE]
    ELSE [exc |-> "none", is_none |-> FALSE, value |-> ss[SessionAt(ss, session_id)]]

\* lines 124-133: Participant(...), veto_items=veto_items or []
ParticipantOf(prefs) ==
    [prefs EXCEPT !.veto_items = IF Truthy(prefs.veto_items)
                                 THEN prefs.veto_items.items ELSE <<>>]

SameName(ps, p) == \E i \in 1..Len(ps) : ps[i].name = p.name

AppendUnlessNamed(ps, p) ==
    IF SameName(ps, p)
    THEN [i \in 1..Len(ps) |-> IF ps[i].name = p.name THEN p ELSE ps[i]]
    ELSE Append(ps, p)

\* line 135: sessions[session_id]["participants"].append(asdict(participant))
AppendParticipant(ps, p) == Append(ps, p)

AddParticipantReopens(ss, session_id, prefs) ==
    IF ~HasSession(ss, session_id)
    THEN [exc |-> "none", store |-> ss, value |-> FALSE]
    ELSE [exc |-> "none",
          store |-> [ss EXCEPT ![SessionAt(ss, session_id)] =
                                   [@ EXCEPT !.participants =
                                                 AppendParticipant(@, ParticipantOf(prefs)),
                                             !.results_ready = FALSE]],
          value |-> TRUE]

\* add_participant: the file afterwards and the value returned
AddParticipant(ss, session_id, prefs) ==
    IF ~HasSession(ss, session_id)
    THEN [exc |-> "none", store |-> ss, value |-> FALSE]
    ELSE [exc |-> "none",
          store |-> [ss EXCEPT ![SessionAt(ss, session_id)].participants =
                                   AppendParticipant(@, ParticipantOf(prefs))],
          value |-> TRUE]

MarkResultsReadyUpsert(ss, session_id) ==
    IF ~HasSession(ss, session_id)
    THEN [exc |-> "none",
          store |-> Append(ss, [session_id |-> session_id, location |-> "",
                                participants |-> <<>>, results_ready |-> TRUE]),
          value |-> TRUE]
    ELSE [exc |-> "none",
          store |-> [ss EXCEPT ![SessionAt(ss, session_id)].results_ready = TRUE],
          value |-> TRUE]

\* mark_results_ready
MarkResultsReady(ss, session_id) ==
    IF ~HasSession(ss, session_id)
    THEN [exc |-> "none", store |-> ss, value |-> FALSE]
    ELSE [exc |-> "none",
          store |-> [ss EXCEPT ![SessionAt(ss, session_id)].results_ready = TRUE],
          value |-> TRUE]

\* delete_session
DeleteSession(ss, session_id) ==
    IF ~HasSession(ss, session_id)
    THEN [exc |-> "none", store |-> ss, value |-> FALSE]
    ELSE [exc |-> "none", store |-> RemoveAt(ss, SessionAt(ss, session_id)),
          value |-> TRUE]

(***************************************************************************)
(* SessionSpec: the SessionManager calls on two sessions.  An id returned  *)
(* by _generate_session_id (timestamp and uuid4) is one the store does not *)
(* hold; "s9" is never created.                                            *)
(***************************************************************************)
MaxParticipants == 2

NewSessionIds == {"s1", "s2"}
SessionIds == NewSessionIds \cup {"s9"}
SessionPrefs == {PrefAna, PrefAna2}

LedgerFrame == UNCHANGED <<engineVars, trackerVars, appVars, users, hist, deleted>>

NoteSession(op, session_id) ==
    call' = [op |-> op, session_id |-> session_id,
             known |-> HasSession(sessions, session_id)]

DoCreateSession ==
    \E session_id \in NewSessionIds :
        /\ ~HasSession(sessions, session_id)
        /\ sessions' = CreateSession(sessions, session_id, "Austin")
        /\ ret' = [op |-> "create_session", exc |-> "none", value |-> session_id]
        /\ NoteSession("create_session", session_id)
        /\ UNCHANGED submitted
        /\ LedgerFrame

DoGetSession ==
    \E session_id \in SessionIds :
        /\ ret' = GetSession(sessions, session_id) @@
                      [op |-> "get_session", session_id |-> session_id]
        /\ NoteSession("get_session", session_id)
        /\ UNCHANGED <<sessions, submitted>>
        /\ LedgerFrame

DoAddParticipant ==
    \E session_id \in SessionIds, prefs \in SessionPrefs :
        LET out == AddParticipant(sessions, session_id, prefs)
        IN  /\ HasSession(sessions, session_id) =>
                   Len(sessions[SessionAt(sessions, session_id)].participants)
                       < MaxParticipants
            /\ sessions' = out.store
            /\ ret' = [op |-> "add_participant", exc |-> out.exc, value |-> out.value]
            /\ submitted' = IF out.value
                            THEN Append(submitted, [session_id |-> session_id,
                                                    prefs |-> prefs])
                            ELSE submitted
            /\ NoteSession("add_participant", session_id)
            /\ LedgerFrame

DoMarkResultsReady ==
    \E session_id \in SessionIds :
        LET out == MarkResultsReady(sessions, session_id)
        IN  /\ sessions' = out.store
            /\ ret' = [op |-> "mark_results_ready", exc |-> out.exc, value |-> out.value]
            /\ NoteSession("mark_results_ready", session_id)
            /\ UNCHANGED submitted
            /\ LedgerFrame

DoDeleteSession ==
    \E session_id \in SessionIds :
        LET out == DeleteSession(sessions, session_id)
        IN  /\ sessions' = out.store
            /\ ret' = [op |-> "delete_session", exc |-> out.exc, value |-> out.value]
            /\ submitted' = SelectSeq(submitted, LAMBDA c : c.session_id # session_id)
            /\ NoteSession("delete_session", session_id)
            /\ LedgerFrame

SessionInit == LedgerInit

SessionNext ==
    \/ DoCreateSession
    \/ DoGetSession
    \/ DoAddParticipant
    \/ DoMarkResultsReady
    \/ DoDeleteSession

SessionSpec == SessionInit /\ [][SessionNext]_vars

\* the preferences submitted to a session by its successful add_participant
\* calls, in call order; no veto list (None) and an empty veto list are the
\* same preference
RECURSIVE SubmittedTo(_, _)
SubmittedTo(calls, session_id) ==
    IF calls = <<>> THEN <<>>
    ELSE (IF Head(calls).session_id = session_id
          THEN <<[Head(calls).prefs EXCEPT !.veto_items =
                      IF @.is_none THEN <<>> ELSE @.items]>>
          ELSE <<>>) \o SubmittedTo(Tail(calls), session_id)

\* C14: after any sequence of successful add_participant calls on a session,
\* get_session returns a participant list equal to the submitted preferences
\* in call order, one entry per call even when a name was submitted twice.
C14_ParticipantsInCallOrder ==
    /\ \A i \in 1..Len(sessions) :
           sessions[i].participants = SubmittedTo(submitted, sessions[i].session_id)
    /\ (ret.op = "get_session" /\ ~ret.is_none) =>
           ret.value.participants = SubmittedTo(submitted, ret.session_id)

\* get_session has returned a session to which the same name was submitted
\* twice with different preferences, while another session holds a
\* participant as well
C14_Witness ==
    /\ ret.op = "get_session" /\ ~ret.is_none
    /\ Len(ret.value.participants) = 2
    /\ ret.value.participants[1].name = ret.value.participants[2].name
    /\ ret.value.participants[1] # ret.value.participants[2]
    /\ \E i \in 1..Len(sessions) :
           sessions[i].session_id # ret.session_id /\ sessions[i].participants # <<>>

\* C15: operating on a session id that is not in the store never raises and
\* never changes the store: get_session returns None, and add_participant,
\* mark_results_ready and delete_session return False, leaving every stored
\* session unchanged.
C15_UnknownSessionNoChange ==
    [][(call'.op \in {"get_session", "add_participant", "mark_results_ready",
                      "delete_session"} /\ ~call'.known) =>
           /\ sessions' = sessions
           /\ ret'.exc = "none"
           /\ call'.op = "get_session" => ret'.is_none
           /\ call'.op # "get_session" => ret'.value = FALSE]_vars

\* mark_results_ready was called with an id that is not in the store, which
\* holds a session with a participant that is still collecting
C15_Witness ==
    /\ call.op = "mark_results_ready" /\ ~call.known
    /\ ret.value = FALSE
    /\ \E i \in 1..Len(sessions) :
           sessions[i].participants # <<>> /\ ~sessions[i].results_ready

(***************************************************************************)
(* The username validation of run_app_enhanced.py (lines 75-84).  A        *)
(* username is a tuple of one-character strings.                           *)
(***************************************************************************)
MIN_USERNAME_LEN == 3
MAX_USERNAME_LEN == 20

Whitespace == {" ", "\t", "\n"}
Digits == {"0", "1", "2", "3", "4", "5", "6", "7", "8", "9"}

\* c.isalnum() on the characters used here
IsAlnumChar(c) ==
    \/ c \in Digits
    \/ \E i \in 1..Len(UpperChars) : c = UpperChars[i] \/ c = LowerChars[i]

\* str.strip()
RECURSIVE LStrip(_)
LStrip(s) == IF s # <<>> /\ Head(s) \in Whitespace THEN LStrip(Tail(s)) ELSE s

RECURSIVE RStrip(_)
RStrip(s) ==
    IF s # <<>> /\ s[Len(s)] \in Whitespace THEN RStrip(SubSeq(s, 1, Len(s) - 1)) ELSE s

Strip(s) == RStrip(LStrip(s))

\* s.replace(c, "")
Remove(s, c) == SelectSeq(s, LAMBDA x : x # c)

\* str.isalnum(): every character is alphanumeric and there is at least one
IsAlnum(s) == s # <<>> /\ \A i \in 1..Len(s) : IsAlnumChar(s[i])

\* lines 76-84: the error shown, or the username stored
ValidateUsername(username) ==
    LET username_clean == Strip(username)
    IN  IF Len(username_clean) < MIN_USERNAME_LEN
        THEN [valid |-> FALSE, error |-> "at least 3 characters"]
        ELSE IF Len(username_clean) > MAX_USERNAME_LEN
        THEN [valid |-> FALSE, error |-> "20 characters or less"]
        ELSE IF ~IsAlnum(Remove(Remove(username_clean, " "), "_"))
        THEN [valid |-> FALSE, error |-> "letters, numbers, spaces, and underscores"]
        ELSE [valid |-> TRUE, username |-> username_clean]

(***************************************************************************)
(* NameSpec: the validation applied to every string of up to MaxNameLen    *)
(* characters, alone and followed by LongTail letters                      *)
(***************************************************************************)
MaxNameLen == 3
LongTail == 18

NameChars == {"a", "7", "_", " ", "@"}
ShortNames == UNION {[1..n -> NameChars] : n \in 0..MaxNameLen}
NameInputs == ShortNames \cup {s \o [i \in 1..LongTail |-> "a"] : s \in ShortNames}

NameInit ==
    /\ EngineIdle
    /\ users = <<>> /\ ret = NoRet /\ hist = {} /\ deleted = {}
    /\ SessionIdle
    /\ TrackerIdle
    /\ AppIdle
    /\ \E s \in NameInputs : call = [op |-> "validate_username", username |-> s]

Validate ==
    /\ ret = NoRet
    /\ ret' = ValidateUsername(call.username) @@ [op |-> "validate_username"]
    /\ UNCHANGED <<engineVars, sessionVars, trackerVars, appVars, noteVars, users, hist>>

NameNext == Validate

NameSpec == NameInit /\ [][NameNext]_vars

Validated == ret.op = "validate_username"

\* C16: the username check accepts a whitespace-stripped username exactly
\* when its length is between 3 and 20 inclusive and every character is
\* alphanumeric, a space or an underscore, and rejects every other string.
C16_UsernameAccepted ==
    Validated =>
        (ret.valid <=>
            LET stripped == Strip(call.username)
            IN  /\ 3 <= Len(stripped) /\ Len(stripped) <= 20
                /\ \A i \in 1..Len(stripped) :
                       IsAlnumChar(stripped[i]) \/ stripped[i] \in {" ", "_"})

\* C16, the usernames on which the code agrees: those holding at least one
\* alphanumeric character after stripping, and those of a wrong length.
C16_AcceptedWhenSomeAlnum ==
    (Validated /\ (\/ \E i \in 1..Len(call.username) : IsAlnumChar(call.username[i])
                   \/ Len(Strip(call.username)) < 3)) =>
        (ret.valid <=>
            LET stripped == Strip(call.username)
            IN  /\ 3 <= Len(stripped) /\ Len(stripped) <= 20
                /\ \A i \in 1..Len(stripped) :
                       IsAlnumChar(stripped[i]) \/ stripped[i] \in {" ", "_"})

(***************************************************************************)
(* ProgressTracker (yelpreviewgym/enhanced_features.py).  self.data is the *)
(* variable tracker; a session keeps its score, the only field read back.  *)
(***************************************************************************)
RECURSIVE SumRat(_)
SumRat(xs) == IF xs = <<>> THEN RInt(0) ELSE RAdd(Head(xs), SumRat(Tail(xs)))

\* [s["score"] for s in sessions if s.get("score")]: a score of 0 is falsy
TruthyScores(session_list) ==
    LET kept == SelectSeq(session_list, LAMBDA s : s.score.n # 0)
    IN  [i \in 1..Len(kept) |-> kept[i].score]

GetAverageScore(data) ==
    IF data.sessions = <<>> THEN RInt(0)
    ELSE LET scores == TruthyScores(data.sessions)
         IN  IF scores # <<>> THEN RDiv(SumRat(scores), RInt(Len(scores))) ELSE RInt(0)

GetTotalAttempts(data) == Len(data.sessions)

\* xs[-(n + 1):-1]
LastNButNewest(xs, n) ==
    IF Len(xs) - 1 <= n THEN SubSeq(xs, 1, Len(xs) - 1)
    ELSE SubSeq(xs, Len(xs) - n, Len(xs) - 1)

\* xs[-n:]
LastN(xs, n) == IF Len(xs) <= n THEN xs ELSE SubSeq(xs, Len(xs) - n + 1, Len(xs))

AwardBadgeAgain(badges, earned, name) == IF earned THEN Append(badges, name) ELSE badges

\* if <earned> and name not in badges: badges.append(name)
AwardBadge(badges, earned, name) ==
    IF earned /\ ~InList(name, badges) THEN Append(badges, name) ELSE badges

CheckBadges(data) ==
    LET attempts == GetTotalAttempts(data)
        avg_score == GetAverageScore(data)
        recent == LastN(data.sessions, 5)
        recent_perfect == \E i \in 1..Len(recent) : RLe(Rat(19, 2), recent[i].score)
        b1 == AwardBadge(data.badges, attempts >= 1, "First Steps")
        b2 == AwardBadge(b1, attempts >= 10, "Practice Makes Perfect")
        b3 == AwardBadge(b2, attempts >= 50, "Master Trainer")
        b4 == AwardBadge(b3, RLe(RInt(8), avg_score) /\ attempts >= 5, "High Achiever")
        b5 == AwardBadge(b4, recent_perfect, "Perfect Score")
    IN  [data EXCEPT !.badges = b5]

RecordAttempt(data, score) ==
    LET appended == [data EXCEPT !.sessions = Append(@, [score |-> score])]
        averaged == [appended EXCEPT !.total_score = GetAverageScore(appended)]
    IN  CheckBadges(averaged)

(***************************************************************************)
(* TrackerSpec: record_attempt calls on one ProgressTracker                *)
(***************************************************************************)
MaxRecorded == 10

TrackerScores == {RInt(0), RInt(5), Rat(19, 2)}

TrackerInit == LedgerInit

DoRecordAttempt ==
    \E score \in TrackerScores :
        /\ Len(tracker.sessions) < MaxRecorded
        /\ tracker' = RecordAttempt(tracker, score)
        /\ call' = [op |-> "record_attempt", score |-> score]
        /\ UNCHANGED <<engineVars, sessionVars, appVars, users, ret, hist, deleted>>

TrackerNext == DoRecordAttempt

TrackerSpec == TrackerInit /\ [][TrackerNext]_vars

BadgeSet(badges) == {badges[i] : i \in 1..Len(badges)}

C17_NoBadgeTwice ==
    \A i, j \in 1..Len(tracker.badges) : tracker.badges[i] = tracker.badges[j] => i = j

C17_NoBadgeRemoved == BadgeSet(tracker.badges) \subseteq BadgeSet(tracker.badges')

\* C17: across any sequence of record_attempt calls on a ProgressTracker the
\* badge list only grows: a badge once present is never removed, and no
\* badge name ever appears in the list more than once.
C17_BadgesOnlyGrow == [](C17_NoBadgeTwice) /\ [][C17_NoBadgeRemoved]_vars

\* ten attempts recorded; "High Achiever" and "Perfect Score" are still held
\* although the average is now below 8 and no recent score reaches 9.5
C17_Witness ==
    /\ Len(tracker.sessions) = 10
    /\ BadgeSet(tracker.badges) =
           {"First Steps", "Practice Makes Perfect", "High Achiever", "Perfect Score"}
    /\ RLt(GetAverageScore(tracker), RInt(8))
    /\ \A i \in 6..10 : RLt(tracker.sessions[i].score, Rat(19, 2))

(***************************************************************************)
(* CertificationSystem.check_certification_eligibility                     *)
(* (yelpreviewgym/enhanced_features.py).  The formatted requirement texts  *)
(* are records naming the text and the number formatted into it.           *)
(***************************************************************************)
NoCertResult ==
    [eligible |-> FALSE, level |-> "None", requirements_met |-> <<>>,
     requirements_needed |-> <<>>]

BronzeStep(result, total_attempts, average_score) ==
    IF total_attempts >= 10 /\ RLe(RInt(6), average_score)
    THEN [result EXCEPT !.eligible = TRUE, !.level = "Bronze",
                        !.requirements_met =
                            << [text |-> "Completed practice sessions", n |-> RInt(total_attempts)],
                               [text |-> "Achieved average score", n |-> average_score] >>]
    ELSE result

SilverStep(result, total_attempts, average_score, badges) ==
    IF total_attempts >= 25 /\ RLe(Rat(15, 2), average_score) /\ Len(badges) >= 3
    THEN [result EXCEPT !.level = "Silver",
                        !.requirements_met =
                            Append(@, [text |-> "Earned badges", n |-> RInt(Len(badges))])]
    ELSE result

GoldStep(result, total_attempts, average_score, badges) ==
    IF total_attempts >= 50 /\ RLe(Rat(17, 2), average_score) /\ Len(badges) >= 5
    THEN [result EXCEPT !.level = "Gold"]
    ELSE result

NeededStep(result, total_attempts, average_score) ==
    IF ~result.eligible
    THEN LET n1 == IF total_attempts < 10
                   THEN << [text |-> "Need more practice sessions",
                            n |-> RInt(10 - total_attempts)] >>
                   ELSE <<>>
             n2 == IF RLt(average_score, RInt(6))
                   THEN << [text |-> "Need points higher average score",
                            n |-> RSub(RInt(6), average_score)] >>
                   ELSE <<>>
         IN  [result EXCEPT !.requirements_needed = n1 \o n2]
    ELSE result

CheckCertificationEligibilitySilverLast(total_attempts, average_score, badges) ==
    LET bronze == BronzeStep(NoCertResult, total_attempts, average_score)
        gold == GoldStep(bronze, total_attempts, average_score, badges)
        silver == SilverStep(gold, total_attempts, average_score, badges)
    IN  NeededStep(silver, total_attempts, average_score)

CheckCertificationEligibility(total_attempts, average_score, badges) ==
    LET bronze == BronzeStep(NoCertResult, total_attempts, average_score)
        silver == SilverStep(bronze, total_attempts, average_score, badges)
        gold == GoldStep(silver, total_attempts, average_score, badges)
    IN  NeededStep(gold, total_attempts, average_score)

(***************************************************************************)
(* EligSpec: one eligibility check on attempts, averages and badge counts  *)
(* on both sides of every threshold                                        *)
(***************************************************************************)
MaxBadges == 5

BadgeNames ==
    <<"First Steps", "Practice Makes Perfect", "Master Trainer", "High Achiever",
      "Perfect Score">>

EligAttempts == {0, 9, 10, 24, 25, 49, 50, 60}
EligAverages ==
    {RInt(0), Rat(59, 10), RInt(6), Rat(74, 10), Rat(15, 2), Rat(84, 10), Rat(17, 2),
     RInt(10)}
EligBadges == {[i \in 1..n |-> BadgeNames[((i - 1) % 5) + 1]] : n \in 0..MaxBadges}

EligInit ==
    /\ EngineIdle
    /\ users = <<>> /\ ret = NoRet /\ hist = {} /\ deleted = {}
    /\ SessionIdle
    /\ TrackerIdle
    /\ AppIdle
    /\ \E a \in EligAttempts, s \in EligAverages, b \in EligBadges :
           call = [op |-> "check_certification_eligibility", total_attempts |-> a,
                   average_score |-> s, badges |-> b]

CheckEligibility ==
    /\ ret = NoRet
    /\ ret' = CheckCertificationEligibility(call.total_attempts, call.average_score,
                                            call.badges)
              @@ [op |-> "check_certification_eligibility"]
    /\ UNCHANGED <<engineVars, sessionVars, trackerVars, appVars, noteVars, users, hist>>

EligNext == CheckEligibility

EligSpec == EligInit /\ [][EligNext]_vars

EligChecked == ret.op = "check_certification_eligibility"

TierHolds(tier) ==
    LET a == call.total_attempts
        s == call.average_score
        n == Len(call.badges)
    IN  CASE tier = "Bronze" -> a >= 10 /\ RLe(RInt(6), s)
          [] tier = "Silver" -> a >= 25 /\ RLe(Rat(15, 2), s) /\ n >= 3
          [] tier = "Gold" -> a >= 50 /\ RLe(Rat(17, 2), s) /\ n >= 5

\* C18: check_certification_eligibility reports the highest tier whose
\* conditions all hold (Bronze: attempts >= 10 and avg >= 6.0; Silver:
\* attempts >= 25, avg >= 7.5, >= 3 badges; Gold: attempts >= 50, avg >= 8.5,
\* >= 5 badges), reports no level when none holds, and its eligible flag is
\* true exactly when a level is reported.
C18_HighestTierReported ==
    EligChecked =>
        /\ ret.level = (IF TierHolds("Gold") THEN "Gold"
                        ELSE IF TierHolds("Silver") THEN "Silver"
                        ELSE IF TierHolds("Bronze") THEN "Bronze"
                        ELSE "None")
        /\ ret.eligible <=> ret.level # "None"

\* Gold reported at exactly the Gold thresholds, where Silver and Bronze hold too
C18_Witness ==
    /\ EligChecked
    /\ call.total_attempts = 50 /\ call.average_score = Rat(17, 2) /\ Len(call.badges) = 5
    /\ ret.level = "Gold" /\ ret.eligible

(***************************************************************************)
(* Session lifecycle and frame (SessionSpec)                               *)
(***************************************************************************)
StoredSession(ss, session_id) == ss[SessionAt(ss, session_id)]

C22_Step ==
    /\ call'.op = "create_session" =>
           /\ HasSession(sessions', call'.session_id)
           /\ ~StoredSession(sessions', call'.session_id).results_ready
           /\ StoredSession(sessions', call'.session_id).participants = <<>>
    /\ \A session_id \in SessionIds :
           (HasSession(sessions, session_id) /\ HasSession(sessions', session_id)) =>
               LET before == StoredSession(sessions, session_id)
                   after == StoredSession(sessions', session_id)
               IN  /\ (~before.results_ready /\ after.results_ready) =>
                          (call'.op = "mark_results_ready" /\ call'.session_id = session_id)
                   /\ before.results_ready => after.results_ready
    /\ (/\ call'.op = "add_participant"
        /\ call'.known
        /\ StoredSession(sessions, call'.session_id).results_ready) =>
           /\ ret'.value = TRUE
           /\ StoredSession(sessions', call'.session_id).results_ready
           /\ Len(StoredSession(sessions', call'.session_id).participants) =
                  Len(StoredSession(sessions, call'.session_id).participants) + 1

\* C22: a session starts in the collecting state (ready flag false, no
\* participants) when created; only mark_results_ready moves it to ready,
\* ready is terminal (no later operation other than deletion sets the flag
\* back to false), and add_participant still succeeds on a ready session
\* without changing the flag.
C22_SessionLifecycle == [][C22_Step]_vars

\* add_participant has just succeeded on a session that was already ready
C22_Witness ==
    /\ call.op = "add_participant" /\ call.known
    /\ ret.op = "add_participant" /\ ret.value = TRUE
    /\ StoredSession(sessions, call.session_id).results_ready
    /\ Len(StoredSession(sessions, call.session_id).participants) = 2

C23_Step ==
    \A i \in 1..Len(sessions) :
        LET session == sessions[i]
            session_id == session.session_id
        IN  /\ ~(call'.op = "delete_session" /\ call'.session_id = session_id) =>
                   HasSession(sessions', session_id)
            /\ call'.session_id # session_id =>
                   /\ HasSession(sessions', session_id)
                   /\ StoredSession(sessions', session_id) = session
            /\ (call'.op = "get_session" /\ call'.session_id = session_id) =>
                   /\ ~ret'.is_none
                   /\ ret'.value = session

\* C23: a session, once created, stays retrievable with its location,
\* participants and ready flag intact until delete_session is called with
\* its own id: no create_session, add_participant, mark_results_ready or
\* delete_session aimed at another session removes or alters it.
C23_SessionKeptUntilDeleted == [][C23_Step]_vars

\* delete_session has just removed one session while the session created
\* before it, ready and holding a participant, is still stored
C23_Witness ==
    /\ call.op = "delete_session" /\ call.known
    /\ ret.value = TRUE
    /\ Len(sessions) = 1
    /\ sessions[1].session_id # call.session_id
    /\ sessions[1].results_ready
    /\ sessions[1].participants # <<>>

(***************************************************************************)
(* FeedbackSpec: the "Get Feedback" handler of run_app_enhanced.py, which  *)
(* records a scored attempt from the scores kept in st.session_state, for  *)
(* one user practising one business with two scenarios                     *)
(***************************************************************************)
MaxFeedback == 3

FeedbackScores == {7, 9}
FeedbackScenarios == {0, 1}

\* lines 437-454: session_scores.append(score), completed_scenarios.add(idx),
\* then save_business_progress with both
GetFeedback ==
    \E score \in FeedbackScores, selected_idx \in FeedbackScenarios :
        LET state == [session_scores |-> Append(session_state.session_scores, score),
                      completed_scenarios |->
                          session_state.completed_scenarios \cup {selected_idx}]
        IN  /\ AttemptsOf("ann") < MaxFeedback
            /\ session_state' = state
            /\ users' = SaveBusinessProgress(users, "ann", "Cafe", "Austin", "restaurant",
                                             Len(AllTitles), state.completed_scenarios,
                                             state.session_scores, AllTitles)
            /\ call' = [op |-> "get_feedback", user |-> "ann", business |-> "Cafe",
                        known |-> HasUser(users, "ann"), score |-> score]
            /\ UNCHANGED <<engineVars, sessionVars, trackerVars, ret, hist, deleted,
                           file_kind, callers, instances>>

\* lines 254-264: a successful "Analyze Business" starts the session over
AnalyzeBusiness ==
    /\ session_state' = NoSessionState
    /\ call' = [op |-> "analyze_business", user |-> "ann", business |-> "Cafe",
                known |-> HasUser(users, "ann"), score |-> 0]
    /\ UNCHANGED <<engineVars, sessionVars, trackerVars, users, ret, hist, deleted,
                   file_kind, callers, instances>>

\* lines 234-236: "Start Fresh" clears the stored progress
StartFresh ==
    /\ users' = ClearBusinessProgress(users, "ann", "Cafe")
    /\ call' = [op |-> "start_fresh", user |-> "ann", business |-> "Cafe",
                known |-> HasUser(users, "ann"), score |-> 0]
    /\ UNCHANGED <<engineVars, sessionVars, trackerVars, session_state, ret, hist,
                   deleted, file_kind, callers, instances>>

FeedbackInit == LedgerInit

FeedbackNext ==
    \/ GetFeedback
    \/ AnalyzeBusiness
    \/ StartFresh

FeedbackSpec == FeedbackInit /\ [][FeedbackNext]_vars

\* the progress stored for (u, b): its score list and attempt count, empty
\* and 0 when nothing is stored
StoredScores(us, u, b) ==
    LET progress == GetBusinessProgress(us, u, b)
    IN  IF progress.is_none THEN <<>> ELSE progress.data.scores

StoredAttempts(us, u, b) ==
    LET progress == GetBusinessProgress(us, u, b)
    IN  IF progress.is_none THEN 0 ELSE progress.data.attempts

TotalAttempts(us, u) == IF HasUser(us, u) THEN us[UserIdx(us, u)].total_attempts ELSE 0

Recorded(before, after, u, b, score) ==
    /\ StoredScores(after, u, b) = Append(StoredScores(before, u, b), score)
    /\ StoredAttempts(after, u, b) = StoredAttempts(before, u, b) + 1
    /\ TotalAttempts(after, u) = TotalAttempts(before, u) + 1

\* C24: recording a scored attempt for (user, business) extends that
\* business's stored score list by exactly the new score and raises both the
\* business attempt count and the user's total attempt count by one,
\* whatever progress was stored for that business before.
C24_AttemptExtendsStoredScores ==
    [][call'.op = "get_feedback" =>
           Recorded(users, users', call'.user, call'.business, call'.score)]_vars

\* C24, where the code agrees: the attempt extends the stored scores when the
\* scores kept in the browser session are the stored ones, and the user's
\* total attempt count rises by one in every case.
C24_AttemptExtendsSessionScores ==
    [][call'.op = "get_feedback" =>
           /\ TotalAttempts(users', call'.user) = TotalAttempts(users, call'.user) + 1
           /\ StoredScores(users', call'.user, call'.business) =
                  Append(session_state.session_scores, call'.score)
           /\ session_state.session_scores = StoredScores(users, call'.user, call'.business)
                  => Recorded(users, users', call'.user, call'.business, call'.score)]_vars

(***************************************************************************)
(* Badge conditions (TrackerSpec)                                          *)
(***************************************************************************)
AllScores(data) == [i \in 1..Len(data.sessions) |-> data.sessions[i].score]

\* the mean of every recorded score, scores of 0 included
MeanOfAll(data) == RDiv(SumRat(AllScores(data)), RInt(Len(data.sessions)))

Awarded(name) ==
    /\ call'.op = "record_attempt"
    /\ name \notin BadgeSet(tracker.badges)
    /\ name \in BadgeSet(tracker'.badges)

\* C25: the "High Achiever" badge is awarded by record_attempt only in a
\* state where at least 5 attempts have been recorded and the mean of all
\* recorded scores (scores of 0 included) is at least 8.0.
C25_HighAchieverMeanOfAll ==
    [][Awarded("High Achiever") =>
           /\ Len(tracker'.sessions) >= 5
           /\ RLe(RInt(8), MeanOfAll(tracker'))]_vars

\* C25, where the code agrees: the badge is awarded only with at least 5
\* attempts recorded and a mean of the non-zero scores of at least 8.0.
C25_HighAchieverMeanOfNonZero ==
    [][Awarded("High Achiever") =>
           /\ Len(tracker'.sessions) >= 5
           /\ TruthyScores(tracker'.sessions) # <<>>
           /\ RLe(RInt(8), RDiv(SumRat(TruthyScores(tracker'.sessions)),
                                RInt(Len(TruthyScores(tracker'.sessions)))))]_vars

\* C26: starting from an empty ProgressTracker, after any sequence of
\* record_attempt calls the "Perfect Score" badge is present exactly when
\* some score recorded so far is >= 9.5: the rolling check over the last 5
\* scores, run on every attempt, never misses a qualifying score and never
\* fires without one.
C26_PerfectScoreIffRecorded ==
    ("Perfect Score" \in BadgeSet(tracker.badges)) <=>
        \E i \in 1..Len(tracker.sessions) : RLe(Rat(19, 2), tracker.sessions[i].score)

\* the badge is held for a qualifying score that has left the last five,
\* and the newest score qualifies as well
C26_Witness ==
    /\ Len(tracker.sessions) = 8
    /\ "Perfect Score" \in BadgeSet(tracker.badges)
    /\ RLe(Rat(19, 2), tracker.sessions[1].score)
    /\ \A i \in 2..7 : RLt(tracker.sessions[i].score, Rat(19, 2))
    /\ RLe(Rat(19, 2), tracker.sessions[8].score)

(***************************************************************************)
(* ExplainSpec: _generate_explanation on the scores of up to MaxScored     *)
(* participants, with min_score and max_score as calculate_group_score     *)
(* passes them (lines 183-185).  The scores are binary fractions: on them  *)
(* the float subtraction max_score - min_score is exact, and no score or   *)
(* difference lies between a threshold and its nearest float, so the float *)
(* comparisons of lines 220-224 decide as the exact ones do.               *)
(***************************************************************************)
MaxScored == 3

ScoredNames == {"Ana", "Bo", "Cy", "Di"}
ScoreValues == {Rat(1, 4), Rat(1, 2), Rat(9, 16), Rat(5, 8), Rat(3, 4), RInt(1)}

\* a dict name -> score: distinct keys, in insertion order
ScoreDicts ==
    {d \in UNION {[1..n -> [key : ScoredNames, val : ScoreValues]] : n \in 1..MaxScored} :
        \A i, j \in 1..Len(d) : d[i].key = d[j].key => i = j}

ExplainInit ==
    /\ EngineIdle
    /\ users = <<>> /\ ret = NoRet /\ hist = {} /\ deleted = {}
    /\ SessionIdle
    /\ TrackerIdle
    /\ AppIdle
    /\ \E d \in ScoreDicts :
           call = [op |-> "generate_explanation", individual_scores |-> d,
                   min_score |-> MinVals(d), max_score |-> MaxVals(d)]

Explain ==
    /\ ret = NoRet
    /\ ret' = GenerateExplanation(call.individual_scores, call.min_score, call.max_score)
              @@ [op |-> "generate_explanation"]
    /\ UNCHANGED <<engineVars, sessionVars, trackerVars, appVars, noteVars, users, hist>>

ExplainNext == Explain

ExplainSpec == ExplainInit /\ [][ExplainNext]_vars

Explained == ret.op = "generate_explanation"

\* the first participant, in participant order, whose score is the minimum
FirstAtMin ==
    LET d == call.individual_scores
        k == CHOOSE i \in 1..Len(d) :
                 /\ d[i].val = call.min_score
                 /\ \A j \in 1..(i - 1) : d[j].val # call.min_score
    IN  d[k].key

\* C27: the explanation of a group result falls in exactly one of four
\* cases decided in this order: max - min < 0.1 gives universal
\* satisfaction; else min < 0.5 gives a major compromise; else min < 0.7
\* gives a mild compromise; else works well for everyone; and the
\* participant named in the two compromise cases is the first one, in
\* participant order, whose score equals the minimum.
C27_ExplanationCases ==
    Explained =>
        LET spread == RSub(call.max_score, call.min_score)
            tight == RLt(spread, Rat(1, 10))
            low == RLt(call.min_score, Rat(1, 2))
            middling == RLt(call.min_score, Rat(7, 10))
        IN  /\ ret.kind = "everyone_equally" <=> tight
            /\ ret.kind = "big_compromise" <=> (~tight /\ low)
            /\ ret.kind = "fair_compromise" <=> (~tight /\ ~low /\ middling)
            /\ ret.kind = "great_for_everyone" <=> (~tight /\ ~low /\ ~middling)
            /\ ret.kind \in {"big_compromise", "fair_compromise"} => ret.who = FirstAtMin

\* a mild compromise among three participants, two of them tied at the
\* minimum: the earlier one of the two is named
C27_Witness ==
    /\ Explained
    /\ Len(call.individual_scores) = 3
    /\ call.individual_scores[1].val = call.max_score
    /\ call.individual_scores[2].val = call.min_score
    /\ call.individual_scores[3].val = call.min_score
    /\ ret.kind = "fair_compromise"
    /\ ret.who = call.individual_scores[2].key

(***************************************************************************)
(* Loading the storage files.  A file holds JSON written by the program    *)
(* ("json": the variable users or sessions is its content), text that is   *)
(* not JSON ("malformed": json raises JSONDecodeError) or bytes that are   *)
(* not UTF-8 ("undecodable": reading raises UnicodeDecodeError, a          *)
(* ValueError that is neither a JSONDecodeError nor an IOError).           *)
(***************************************************************************)
FileKinds == {"json", "malformed", "undecodable"}

\* UserManager._load_data (lines 21-29): except (json.JSONDecodeError, IOError)
LoadData(kind, content) ==
    CASE kind = "json" -> [exc |-> "none", value |-> content]
      [] kind = "malformed" -> [exc |-> "none", value |-> <<>>]
      [] kind = "undecodable" -> [exc |-> "UnicodeDecodeError", value |-> <<>>]

\* SessionManager._load_sessions (lines 49-54):
\* except (json.JSONDecodeError, FileNotFoundError)
LoadSessions(kind, content) ==
    CASE kind = "json" -> [exc |-> "none", value |-> content]
      [] kind = "malformed" -> [exc |-> "none", value |-> <<>>]
      [] kind = "undecodable" -> [exc |-> "UnicodeDecodeError", value |-> <<>>]

(***************************************************************************)
(* UserManager instances on one data file.  users is the content of the    *)
(* file; instances[i].users is self.users of instance i, loaded once by    *)
(* __init__ (line 19) and written out whole by _save_data (lines 31-37).   *)
(***************************************************************************)
Unbuilt == [built |-> FALSE, users |-> <<>>]

ManagerUsers == {"ann", "bob"}

NoteManager(op, i, u) ==
    call' = [op |-> op, manager |-> i, user |-> u, kind |-> file_kind.users,
             in_step |-> instances[i].users = users]

ManagerFrame == UNCHANGED <<engineVars, sessionVars, trackerVars, session_state, callers, hist, deleted>>

\* UserManager(data_file)
Construct ==
    \E i \in DOMAIN instances :
        LET got == LoadData(file_kind.users, users)
        IN  /\ ~instances[i].built
            /\ instances' = IF got.exc = "none"
                            THEN [instances EXCEPT ![i] = [built |-> TRUE, users |-> got.value]]
                            ELSE instances
            /\ ret' = [op |-> "construct", exc |-> got.exc, ok |-> got.exc = "none"]
            /\ NoteManager("construct", i, "")
            /\ UNCHANGED <<users, file_kind>>
            /\ ManagerFrame

\* save_business_progress through instance i: self.users is changed and
\* written to the file
ManagerSave ==
    \E i \in DOMAIN instances, u \in ManagerUsers, score \in {7, 9} :
        LET mine == instances[i].users
            attempts == IF HasUser(mine, u) THEN mine[UserIdx(mine, u)].total_attempts ELSE 0
            new == SaveBusinessProgress(mine, u, "Cafe", "Austin", "restaurant", 1, {0},
                                        <<score>>, SubSeq(AllTitles, 1, 1))
        IN  /\ instances[i].built
            /\ attempts < MaxAttempts
            /\ instances' = [instances EXCEPT ![i].users = new]
            /\ users' = new
            /\ file_kind' = [file_kind EXCEPT !.users = "json"]
            /\ ret' = [op |-> "save_business_progress", exc |-> "none", ok |-> TRUE]
            /\ NoteManager("save_business_progress", i, u)
            /\ ManagerFrame

\* delete_user through instance i: the file is written when the user is known
ManagerDelete ==
    \E i \in DOMAIN instances, u \in ManagerUsers :
        LET mine == instances[i].users
        IN  /\ instances[i].built
            /\ instances' = [instances EXCEPT ![i].users = DeleteUser(mine, u)]
            /\ users' = IF HasUser(mine, u) THEN DeleteUser(mine, u) ELSE users
            /\ file_kind' = IF HasUser(mine, u)
                            THEN [file_kind EXCEPT !.users = "json"] ELSE file_kind
            /\ ret' = [op |-> "delete_user", exc |-> "none", ok |-> HasUser(mine, u)]
            /\ NoteManager("delete_user", i, u)
            /\ ManagerFrame

(***************************************************************************)
(* A SessionManager call on the file as it is: every call loads the file   *)
(* first and saves it when it changed a session.                           *)
(***************************************************************************)
SessionCallOps ==
    {"create_session", "get_session", "add_participant", "mark_results_ready",
     "delete_session"}

\* the outcome of op on the loaded dict ss
SessionOutcome(op, ss, session_id, prefs) ==
    CASE op = "create_session" ->
             [exc |-> "none", store |-> CreateSession(ss, session_id, "Austin"),
              value |-> TRUE, saves |-> TRUE]
      [] op = "get_session" ->
             [exc |-> "none", store |-> ss, value |-> HasSession(ss, session_id),
              saves |-> FALSE]
      [] op = "add_participant" ->
             AddParticipant(ss, session_id, prefs) @@ [saves |-> HasSession(ss, session_id)]
      [] op = "mark_results_ready" ->
             MarkResultsReady(ss, session_id) @@ [saves |-> HasSession(ss, session_id)]
      [] op = "delete_session" ->
             DeleteSession(ss, session_id) @@ [saves |-> HasSession(ss, session_id)]

SessionCall ==
    \E op \in SessionCallOps, session_id \in {"s1", "s9"} :
        LET got == LoadSessions(file_kind.sessions, sessions)
            out == SessionOutcome(op, got.value, session_id, PrefAna)
            written == got.exc = "none" /\ out.saves
        IN  /\ op = "create_session" => (session_id = "s1" /\ ~HasSession(got.value, "s1"))
            /\ (op = "add_participant" /\ HasSession(got.value, session_id)) =>
                   Len(StoredSession(got.value, session_id).participants) < MaxParticipants
            /\ sessions' = IF written THEN out.store ELSE sessions
            /\ file_kind' = IF written THEN [file_kind EXCEPT !.sessions = "json"]
                            ELSE file_kind
            /\ ret' = [op |-> op, exc |-> got.exc, ok |-> got.exc = "none" /\ out.value]
            /\ call' = [op |-> op, manager |-> "", user |-> session_id,
                        kind |-> file_kind.sessions, in_step |-> TRUE]
            /\ UNCHANGED <<engineVars, trackerVars, session_state, callers, instances,
                           users, submitted, hist, deleted>>

(***************************************************************************)
(* CorruptSpec: one UserManager and the SessionManager calls, started on   *)
(* storage files of every kind                                             *)
(***************************************************************************)
CorruptInit ==
    /\ EngineIdle
    /\ users = <<>> /\ ret = NoRet /\ hist = {} /\ call = NoCall /\ deleted = {}
    /\ SessionIdle
    /\ TrackerIdle
    /\ session_state = NoSessionState
    /\ callers = <<>>
    /\ file_kind \in [users : FileKinds, sessions : FileKinds]
    /\ instances = [i \in {"um1"} |-> Unbuilt]

CorruptNext ==
    \/ Construct
    \/ ManagerSave
    \/ ManagerDelete
    \/ SessionCall

CorruptSpec == CorruptInit /\ [][CorruptNext]_vars

\* what the claim asks of a call that met a file of the kinds in bad
EmptyStoreOn(bad) ==
    call.op # "none" /\ call.kind \in bad =>
        /\ ret.exc = "none"
        /\ call.op = "construct" =>
               instances[call.manager].built /\ instances[call.manager].users = <<>>
        /\ call.op \in {"get_session", "add_participant", "mark_results_ready",
                        "delete_session"} => ~ret.ok
        /\ call.op = "create_session" =>
               /\ ret.ok
               /\ file_kind.sessions = "json"
               /\ Len(sessions) = 1
               /\ sessions[1].session_id = call.user
        /\ call.op = "save_business_progress" =>
               /\ file_kind.users = "json"
               /\ Len(users) = 1
               /\ users[1].username = call.user
               /\ users[1].total_attempts = 1

\* C21: a persisted store that cannot be parsed is treated as an empty store
\* rather than an error: UserManager starts with no users and
\* SessionManager reports every session id as not found, and subsequent
\* operations proceed normally from that empty state.
C21_UnparsableStoreIsEmpty == EmptyStoreOn({"malformed", "undecodable"})

\* C21, where the code agrees: a store holding text that is not JSON is
\* treated as empty.
C21_MalformedStoreIsEmpty == EmptyStoreOn({"malformed"})

(***************************************************************************)
(* ManagersSpec: two UserManager instances on one data file, their         *)
(* operations one after the other                                          *)
(***************************************************************************)
ManagersInit ==
    /\ EngineIdle
    /\ users = <<>> /\ ret = NoRet /\ hist = {} /\ call = NoCall /\ deleted = {}
    /\ SessionIdle
    /\ TrackerIdle
    /\ session_state = NoSessionState
    /\ callers = <<>>
    /\ file_kind = JsonFiles
    /\ instances = [i \in {"um1", "um2"} |-> Unbuilt]

ManagersNext ==
    \/ Construct
    \/ ManagerSave
    \/ ManagerDelete

ManagersSpec == ManagersInit /\ [][ManagersNext]_vars

\* the profiles of the file other than u's are in the file afterwards, as
\* they were
OthersKept(u) ==
    \A k \in 1..Len(users) :
        users[k].username # u =>
            /\ HasUser(users', users[k].username)
            /\ users'[UserIdx(users', users[k].username)] = users[k]

\* C30: every ledger operation is a self-contained read-modify-write on the
\* persisted state: when two UserManager instances bound to the same data
\* file perform operations strictly one after the other (never
\* overlapping), an update saved through one instance is never lost or
\* reverted by a later operation through the other.
C30_NoUpdateLostAcrossInstances ==
    [][call'.op \in {"save_business_progress", "delete_user"} =>
           OthersKept(call'.user)]_vars

\* C30, where the code agrees: an operation through an instance whose
\* self.users is what the file holds keeps every other profile.
C30_NoUpdateLostWhenInStep ==
    [][(call'.op \in {"save_business_progress", "delete_user"} /\ call'.in_step) =>
           OthersKept(call'.user)]_vars

(***************************************************************************)
(* RaceSpec: two callers of one SessionManager storage file, one call      *)
(* each.  A call is two steps: it loads the file into its local sessions   *)
(* dict (lines 77, 119, 142) and later changes that dict and saves it      *)
(* (lines 78-79, 135-136, 147-148).  seen counts the saves made before the *)
(* load, order is the rank of the call's own save.                         *)
(***************************************************************************)
RaceCallers == {"a", "b"}
RaceOps == {"create_session", "add_participant", "mark_results_ready"}
RacePrefs == {PrefAna, PrefBo}
NewIdOf == [a |-> "s3", b |-> "s4"]

EmptySession(session_id) ==
    [session_id |-> session_id, location |-> "Austin", participants |-> <<>>,
     results_ready |-> FALSE]

\* the file after create_session twice, and after an add_participant as well
RaceStores ==
    { <<EmptySession("s1"), EmptySession("s2")>>,
      <<[EmptySession("s1") EXCEPT !.participants = <<ParticipantOf(PrefBo)>>],
        EmptySession("s2")>> }

IdleCaller ==
    [pc |-> "idle", op |-> "none", session_id |-> "", prefs |-> PrefAna,
     loaded |-> <<>>, seen |-> 0, order |-> 0, value |-> FALSE]

SavesSoFar == Cardinality({c \in DOMAIN callers : callers[c].order > 0})

WrittenFromFile(file, loaded, op, session_id, prefs) ==
    SessionOutcome(op, file, session_id, prefs).store

\* what _save_sessions(sessions) writes: the caller's dict, changed
Written(file, loaded, op, session_id, prefs) ==
    SessionOutcome(op, loaded, session_id, prefs).store

RaceFrame == UNCHANGED <<engineVars, trackerVars, session_state, file_kind, instances, users, ret, hist, noteVars, submitted>>

\* sessions = self._load_sessions()
RaceLoad ==
    \E c \in DOMAIN callers, op \in RaceOps, id \in {"s1", "s2"}, prefs \in RacePrefs :
        /\ callers[c].pc = "idle"
        /\ op # "add_participant" => prefs = PrefAna
        /\ op = "create_session" => id = "s1"
        /\ callers' = [callers EXCEPT ![c] =
               [pc |-> "loaded", op |-> op,
                session_id |-> IF op = "create_session" THEN NewIdOf[c] ELSE id,
                prefs |-> prefs,
                loaded |-> LoadSessions(file_kind.sessions, sessions).value,
                seen |-> SavesSoFar, order |-> 0, value |-> FALSE]]
        /\ UNCHANGED sessions
        /\ RaceFrame

\* the change to the local dict, self._save_sessions(sessions), return
RaceSave ==
    \E c \in DOMAIN callers :
        LET me == callers[c]
            out == SessionOutcome(me.op, me.loaded, me.session_id, me.prefs)
        IN  /\ me.pc = "loaded"
            /\ sessions' = IF out.saves
                           THEN Written(sessions, me.loaded, me.op, me.session_id, me.prefs)
                           ELSE sessions
            /\ callers' = [callers EXCEPT ![c] =
                   [me EXCEPT !.pc = "done", !.value = out.value,
                              !.order = IF out.saves THEN SavesSoFar + 1 ELSE 0]]
            /\ RaceFrame

RaceInit ==
    /\ EngineIdle
    /\ users = <<>> /\ ret = NoRet /\ hist = {} /\ call = NoCall /\ deleted = {}
    /\ submitted = <<>>
    /\ TrackerIdle
    /\ session_state = NoSessionState
    /\ file_kind = JsonFiles
    /\ instances = <<>>
    /\ sessions \in RaceStores
    /\ callers = [c \in RaceCallers |-> IdleCaller]

RaceNext ==
    \/ RaceLoad
    \/ RaceSave

RaceSpec == RaceInit /\ [][RaceNext]_vars

\* both calls are over, and y saved last
BothDone(x, y) ==
    /\ x # y
    /\ callers[x].pc = "done" /\ callers[y].pc = "done"
    /\ callers[x].order > 0
    /\ callers[y].order > callers[x].order
    /\ callers[y].order = SavesSoFar

\* x and y both loaded the file before either of them saved
Overlapping(x, y) ==
    /\ callers[x].seen < callers[y].order /\ callers[y].seen < callers[x].order

\* C28: concurrent writes to the same session can silently overwrite each
\* other: when two add_participant calls on one session id both load the
\* store before either saves, both return success yet the stored session
\* ends up containing only the participant of the later save.
C28_LaterSaveOverwrites ==
    \A x, y \in DOMAIN callers :
        (/\ BothDone(x, y)
         /\ Overlapping(x, y)
         /\ callers[x].op = "add_participant" /\ callers[y].op = "add_participant"
         /\ callers[x].session_id = callers[y].session_id) =>
            /\ callers[x].value /\ callers[y].value
            /\ StoredSession(sessions, callers[y].session_id).participants =
                   Append(StoredSession(callers[y].loaded, callers[y].session_id).participants,
                          ParticipantOf(callers[y].prefs))

\* two overlapping add_participant calls on "s1" with different
\* preferences are over; the session holds one participant, the later one
C28_Witness ==
    \E x, y \in DOMAIN callers :
        /\ BothDone(x, y)
        /\ Overlapping(x, y)
        /\ callers[x].op = "add_participant" /\ callers[y].op = "add_participant"
        /\ callers[x].session_id = "s1" /\ callers[y].session_id = "s1"
        /\ callers[x].prefs # callers[y].prefs
        /\ callers[x].loaded[1].participants = <<>>
        /\ callers[x].value /\ callers[y].value
        /\ sessions[1].participants = <<ParticipantOf(callers[y].prefs)>>

\* the update of caller c is in the file
Applied(c) ==
    LET me == callers[c]
    IN  /\ HasSession(sessions, me.session_id)
        /\ me.op = "add_participant" =>
               \E i \in 1..Len(StoredSession(sessions, me.session_id).participants) :
                   /\ StoredSession(sessions, me.session_id).participants[i] =
                          ParticipantOf(me.prefs)
                   /\ i > Len(StoredSession(me.loaded, me.session_id).participants)
        /\ me.op = "mark_results_ready" =>
               StoredSession(sessions, me.session_id).results_ready

\* C29: under the design's assumption of at most one concurrent writer per
\* key, callers that concurrently write to two different session ids
\* (add_participant, mark_results_ready or create_session) never lose each
\* other's updates, whatever the interleaving of their load and save steps.
C29_DifferentIdsKeepUpdates ==
    \A x, y \in DOMAIN callers :
        (BothDone(x, y) /\ callers[x].session_id # callers[y].session_id) =>
            Applied(x) /\ Applied(y)

\* C29, where the code agrees: writes to two different session ids that do
\* not overlap (the later caller loads after the earlier one has saved)
\* keep both updates.
C29_DifferentIdsKeptInSequence ==
    \A x, y \in DOMAIN callers :
        (/\ BothDone(x, y)
         /\ ~Overlapping(x, y)
         /\ callers[x].session_id # callers[y].session_id) =>
            Applied(x) /\ Applied(y)

====
